---- MODULE Spec2Model ----
(***************************************************************************)
(* A model of the poker training backend: the hand evaluator               *)
(* (app/engine/hand_evaluator.py), the progression engine                  *)
(* (app/learning/progression.py) over the knowledge_scores and             *)
(* question_attempts tables (app/models/training.py), the hand synthesis   *)
(* and the which_wins questions of the question generator                  *)
(* (app/learning/question_generator.py), the starting hands                *)
(* (app/engine/starting_hands.py), the card notation (app/engine/card.py), *)
(* the generation of the three question types, and the endpoints of        *)
(* app/api/training.py and app/api/stats.py over the question cache.       *)
(***************************************************************************)
EXTENDS Integers, Sequences, FiniteSets, Bags, TLC

VARIABLES
    cards,              \* the list of cards handed to HandEvaluator.evaluate
    evaluated,          \* what evaluate returned for it (NotEvaluated before the call)
    hand1, hand2, hand3,    \* three hands handed to HandEvaluator.compare_hands, pair by pair
    compared,           \* what compare_hands returned for the pairs (NotCompared before the calls)
    knowledge_scores,   \* the knowledge_scores table: its rows in insertion order
    question_attempts,  \* the question_attempts table: a bag of rows
    last_call,          \* the ProgressionEngine call that returned last, with its arguments
    sessions,           \* the record_attempt calls in progress, by database session
    synthesized,        \* what QuestionGenerator._generate_hand_of_rank returned last
    question,           \* the which_wins question generated last
    starting,           \* the StartingHands call made last, with its arguments and result
    _question_cache,    \* the question cache of app/api/training.py: question id -> question
    question_ids,       \* the number of question ids drawn so far (uuid4 never repeats one)
    requests,           \* the POST /answer and GET /question requests in progress, by session
    parsed              \* what Card.from_string was handed last and what it returned

evalVars == <<cards, evaluated>>
compareVars == <<hand1, hand2, hand3, compared>>
dbVars == <<knowledge_scores, question_attempts>>
engineVars == <<knowledge_scores, question_attempts, last_call, sessions>>
quizVars == <<synthesized, question, starting>>
apiVars == <<_question_cache, question_ids, requests, parsed>>
vars == <<cards, evaluated, hand1, hand2, hand3, compared,
          knowledge_scores, question_attempts, last_call, sessions,
          synthesized, question, starting,
          _question_cache, question_ids, requests, parsed>>

(***************************************************************************)
(* Card model (app/engine/card.py)                                         *)
(***************************************************************************)
Suit == 0..3
Rank == 2..14
Card == [rank : Rank, suit : Suit]

(***************************************************************************)
(* Hand ranks (app/engine/hand_rankings.py)                                *)
(***************************************************************************)
HIGH_CARD == 1
ONE_PAIR == 2
TWO_PAIR == 3
THREE_OF_A_KIND == 4
STRAIGHT == 5
FLUSH == 6
FULL_HOUSE == 7
FOUR_OF_A_KIND == 8
STRAIGHT_FLUSH == 9
ROYAL_FLUSH == 10
HandRank == HIGH_CARD..ROYAL_FLUSH

(***************************************************************************)
(* Python built-ins the evaluator uses                                     *)
(***************************************************************************)
SetMax(S) == CHOOSE m \in S : \A x \in S : x <= m

\* sorted(S, reverse=True) of a set of integers
RECURSIVE SortedSetDesc(_)
SortedSetDesc(S) ==
    IF S = {} THEN <<>>
    ELSE LET m == SetMax(S) IN <<m>> \o SortedSetDesc(S \ {m})

\* the list s without its element at index i
RemoveAt(s, i) == [j \in 1..(Len(s) - 1) |-> IF j < i THEN s[j] ELSE s[j + 1]]

\* sorted(s, reverse=True) of a list of integers (duplicates kept)
RECURSIVE SortedDesc(_)
SortedDesc(s) ==
    IF Len(s) <= 1 THEN s
    ELSE LET m == SetMax({s[i] : i \in 1..Len(s)})
             i == CHOOSE k \in 1..Len(s) : s[k] = m /\ \A j \in 1..(k - 1) : s[j] # m
         IN <<m>> \o SortedDesc(RemoveAt(s, i))

\* Counter(ranks)[r]
RankCount(ranks, r) == Cardinality({i \in 1..Len(ranks) : ranks[i] = r})

\* the keys of Counter(ranks) in insertion order: each rank at its first occurrence
CounterKeys(ranks) ==
    SelectSeq([i \in 1..Len(ranks) |->
                  IF \A j \in 1..(i - 1) : ranks[j] # ranks[i] THEN ranks[i] ELSE 0],
              LAMBDA r : r # 0)

\* [r for r, c in rank_counts.items() if c == n]
RanksWithCount(ranks, n) == SelectSeq(CounterKeys(ranks), LAMBDA r : RankCount(ranks, r) = n)

\* n in rank_counts.values()
HasCount(ranks, n) == \E i \in 1..Len(ranks) : RankCount(ranks, ranks[i]) = n

\* Python's lexicographic a < b on tuples of integers
TupleLess(a, b) ==
    \E i \in 1..(Len(b)) :
        /\ \A j \in 1..(i - 1) : j <= Len(a) /\ a[j] = b[j]
        /\ \/ i = Len(a) + 1
           \/ i <= Len(a) /\ a[i] < b[i]

(***************************************************************************)
(* HandEvaluator (app/engine/hand_evaluator.py)                            *)
(***************************************************************************)
EvaluatedHand(rank, primary_values, kickers, cs) ==
    [rank |-> rank, primary_values |-> primary_values, kickers |-> kickers, cards |-> cs]

\* EvaluatedHand.score
score(h) == <<h.rank>> \o h.primary_values \o h.kickers

\* EvaluatedHand.__lt__, __gt__, __eq__
HandLt(a, b) == TupleLess(score(a), score(b))
HandGt(a, b) == TupleLess(score(b), score(a))
HandEq(a, b) == score(a) = score(b)

\* _check_straight without its wheel case
CheckStraightNoWheel(ranks) ==
    LET unique_ranks == SortedSetDesc({ranks[i] : i \in 1..Len(ranks)})
    IN IF Len(unique_ranks) # 5 THEN <<FALSE, 0>>
       ELSE IF unique_ranks[1] - unique_ranks[5] = 4 THEN <<TRUE, unique_ranks[1]>>
       ELSE <<FALSE, 0>>

\* _check_straight reporting the ace as the wheel's high card
CheckStraightAceHighWheel(ranks) ==
    LET unique_ranks == SortedSetDesc({ranks[i] : i \in 1..Len(ranks)})
    IN IF Len(unique_ranks) # 5 THEN <<FALSE, 0>>
       ELSE IF unique_ranks[1] - unique_ranks[5] = 4 THEN <<TRUE, unique_ranks[1]>>
       ELSE IF unique_ranks = <<14, 5, 4, 3, 2>> THEN <<TRUE, unique_ranks[1]>>
       ELSE <<FALSE, 0>>

\* HandEvaluator._check_straight: <<is_straight, high_card>>
_check_straight(ranks) ==
    LET unique_ranks == SortedSetDesc({ranks[i] : i \in 1..Len(ranks)})
    IN IF Len(unique_ranks) # 5 THEN <<FALSE, 0>>
       ELSE IF unique_ranks[1] - unique_ranks[5] = 4 THEN <<TRUE, unique_ranks[1]>>
       ELSE IF unique_ranks = <<14, 5, 4, 3, 2>> THEN <<TRUE, 5>>
       ELSE <<FALSE, 0>>

\* HandEvaluator._evaluate_five
_evaluate_five(cs) ==
    LET ranks == SortedDesc([i \in 1..Len(cs) |-> cs[i].rank])
        suits == {cs[i].suit : i \in 1..Len(cs)}
        is_flush == Cardinality(suits) = 1
        st == _check_straight(ranks)
        is_straight == st[1]
        straight_high == st[2]
        pairs == RanksWithCount(ranks, 2)
    IN IF is_flush /\ is_straight THEN
           IF straight_high = 14
           THEN EvaluatedHand(ROYAL_FLUSH, <<14>>, <<>>, cs)
           ELSE EvaluatedHand(STRAIGHT_FLUSH, <<straight_high>>, <<>>, cs)
       ELSE IF HasCount(ranks, 4) THEN
           LET quad_rank == RanksWithCount(ranks, 4)[1]
               kicker == SelectSeq(ranks, LAMBDA r : r # quad_rank)[1]
           IN EvaluatedHand(FOUR_OF_A_KIND, <<quad_rank>>, <<kicker>>, cs)
       ELSE IF HasCount(ranks, 3) /\ HasCount(ranks, 2) THEN
           LET trips_rank == RanksWithCount(ranks, 3)[1]
               pair_rank == RanksWithCount(ranks, 2)[1]
           IN EvaluatedHand(FULL_HOUSE, <<trips_rank, pair_rank>>, <<>>, cs)
       ELSE IF is_flush THEN
           EvaluatedHand(FLUSH, ranks, <<>>, cs)
       ELSE IF is_straight THEN
           EvaluatedHand(STRAIGHT, <<straight_high>>, <<>>, cs)
       ELSE IF HasCount(ranks, 3) THEN
           LET trips_rank == RanksWithCount(ranks, 3)[1]
               kickers == SortedDesc(SelectSeq(ranks, LAMBDA r : r # trips_rank))
           IN EvaluatedHand(THREE_OF_A_KIND, <<trips_rank>>, kickers, cs)
       ELSE IF Len(pairs) = 2 THEN
           LET sorted_pairs == SortedDesc(pairs)
               kicker == SelectSeq(ranks, LAMBDA r : r # sorted_pairs[1] /\ r # sorted_pairs[2])[1]
           IN EvaluatedHand(TWO_PAIR, sorted_pairs, <<kicker>>, cs)
       ELSE IF Len(pairs) = 1 THEN
           LET pair_rank == pairs[1]
               kickers == SortedDesc(SelectSeq(ranks, LAMBDA r : r # pair_rank))
           IN EvaluatedHand(ONE_PAIR, <<pair_rank>>, kickers, cs)
       ELSE EvaluatedHand(HIGH_CARD, <<ranks[1]>>, Tail(ranks), cs)

\* itertools.combinations(range(lo, n + 1), k), in the order itertools yields them
RECURSIVE CombinationsFrom(_, _, _)
CombinationsFrom(lo, n, k) ==
    IF k = 0 THEN << <<>> >>
    ELSE IF n - lo + 1 < k THEN <<>>
    ELSE LET withLo == CombinationsFrom(lo + 1, n, k - 1)
         IN [i \in 1..Len(withLo) |-> <<lo>> \o withLo[i]] \o CombinationsFrom(lo + 1, n, k)

Combinations6 == CombinationsFrom(1, 6, 5)
Combinations7 == CombinationsFrom(1, 7, 5)

\* combinations(cards, 5) as index tuples into cards
combinations(n) ==
    IF n = 6 THEN Combinations6 ELSE IF n = 7 THEN Combinations7 ELSE CombinationsFrom(1, n, 5)

ValueError == [error |-> "ValueError"]
None == [none |-> TRUE]

\* the loop of evaluate keeping a hand that is lower, not higher, than the best so far
RECURSIVE BestFromKeepingLower(_, _, _, _)
BestFromKeepingLower(cs, combos, i, best_hand) ==
    IF i > Len(combos) THEN best_hand
    ELSE LET combo == [j \in 1..5 |-> cs[combos[i][j]]]
             hand == _evaluate_five(combo)
         IN BestFromKeepingLower(cs, combos, i + 1,
                IF best_hand = None \/ HandLt(hand, best_hand) THEN hand ELSE best_hand)

\* the loop of HandEvaluator.evaluate over the combinations from index i on
RECURSIVE BestFrom(_, _, _, _)
BestFrom(cs, combos, i, best_hand) ==
    IF i > Len(combos) THEN best_hand
    ELSE LET combo == [j \in 1..5 |-> cs[combos[i][j]]]
             hand == _evaluate_five(combo)
         IN BestFrom(cs, combos, i + 1,
                     IF best_hand = None \/ HandGt(hand, best_hand) THEN hand ELSE best_hand)

\* HandEvaluator.evaluate
evaluate(cs) ==
    IF Len(cs) < 5 THEN ValueError
    ELSE IF Len(cs) = 5 THEN _evaluate_five(cs)
    ELSE BestFrom(cs, combinations(Len(cs)), 1, None)

\* compare_hands looking at the hand rank alone
CompareHandsByRankOnly(h1, h2) ==
    LET eval1 == evaluate(h1)
        eval2 == evaluate(h2)
    IN IF eval1.rank > eval2.rank THEN 1
       ELSE IF eval1.rank < eval2.rank THEN -1
       ELSE 0

\* HandEvaluator.compare_hands
compare_hands(h1, h2) ==
    LET eval1 == evaluate(h1)
        eval2 == evaluate(h2)
    IN IF HandGt(eval1, eval2) THEN 1
       ELSE IF HandLt(eval1, eval2) THEN -1
       ELSE 0

(***************************************************************************)
(* The tables (app/models/training.py).  The application runs as one user  *)
(* (settings.default_user_id), so the user_id column is left out; so are   *)
(* the columns nothing reads back to decide anything: the ids, the         *)
(* timestamps, and an attempt's response time, difficulty and payload.     *)
(***************************************************************************)
\* a KnowledgeScore row as get_or_create_score creates it
NewKnowledgeScore(topic) ==
    [topic |-> topic, total_attempts |-> 0, correct_attempts |-> 0,
     current_streak |-> 0, best_streak |-> 0, current_difficulty |-> 1]

\* a QuestionAttempt row
QuestionAttempt(question_type, correct) == [question_type |-> question_type, correct |-> correct]

\* KnowledgeScore.accuracy, the float correct_attempts / total_attempts * 100, kept as
\* the fraction <<numerator, denominator>>.  A comparison of it with a whole
\* percentage p is exact in floating point as well: when 100 * correct = p * total
\* the quotient is the double nearest p / 100 and its product with 100 rounds to p,
\* and otherwise the quotient is off p / 100 by at least 1 / (100 * total).
accuracy(s) ==
    IF s.total_attempts = 0 THEN <<0, 1>>
    ELSE <<s.correct_attempts * 100, s.total_attempts>>

AtLeast(acc, pct) == acc[1] >= pct * acc[2]
Below(acc, pct) == acc[1] < pct * acc[2]

(***************************************************************************)
(* ProgressionEngine (app/learning/progression.py)                         *)
(***************************************************************************)
ACCURACY_INCREASE_THRESHOLD == 80
ACCURACY_DECREASE_THRESHOLD == 50
STREAK_FOR_INCREASE == 5
MIN_ATTEMPTS_FOR_ADJUSTMENT == 5
MAX_DIFFICULTY == 5
MIN_DIFFICULTY == 1
TOPICS == <<"hand_ranking", "which_wins", "starting_hand">>
Topics == {TOPICS[i] : i \in 1..Len(TOPICS)}

Min(a, b) == IF a <= b THEN a ELSE b
Max(a, b) == IF a >= b THEN a ELSE b

\* _calculate_new_difficulty raising the difficulty with no upper limit
CalculateNewDifficultyUncapped(s) ==
    LET current == s.current_difficulty IN
    IF s.total_attempts < MIN_ATTEMPTS_FOR_ADJUSTMENT THEN current
    ELSE IF \/ AtLeast(accuracy(s), ACCURACY_INCREASE_THRESHOLD)
            \/ s.current_streak >= STREAK_FOR_INCREASE
         THEN current + 1
    ELSE IF Below(accuracy(s), ACCURACY_DECREASE_THRESHOLD)
         THEN Max(current - 1, MIN_DIFFICULTY)
    ELSE current

\* _calculate_new_difficulty raising the difficulty only above the threshold, not at it
CalculateNewDifficultyAboveThreshold(s) ==
    LET current == s.current_difficulty IN
    IF s.total_attempts < MIN_ATTEMPTS_FOR_ADJUSTMENT THEN current
    ELSE IF \/ accuracy(s)[1] > ACCURACY_INCREASE_THRESHOLD * accuracy(s)[2]
            \/ s.current_streak >= STREAK_FOR_INCREASE
         THEN Min(current + 1, MAX_DIFFICULTY)
    ELSE IF Below(accuracy(s), ACCURACY_DECREASE_THRESHOLD)
         THEN Max(current - 1, MIN_DIFFICULTY)
    ELSE current

\* _calculate_new_difficulty adjusting from the first attempt on
CalculateNewDifficultyWithoutMinimum(s) ==
    LET current == s.current_difficulty IN
    IF \/ AtLeast(accuracy(s), ACCURACY_INCREASE_THRESHOLD)
       \/ s.current_streak >= STREAK_FOR_INCREASE
    THEN Min(current + 1, MAX_DIFFICULTY)
    ELSE IF Below(accuracy(s), ACCURACY_DECREASE_THRESHOLD)
         THEN Max(current - 1, MIN_DIFFICULTY)
    ELSE current

\* ProgressionEngine._calculate_new_difficulty
_calculate_new_difficulty(s) ==
    LET current == s.current_difficulty IN
    IF s.total_attempts < MIN_ATTEMPTS_FOR_ADJUSTMENT THEN current
    ELSE IF \/ AtLeast(accuracy(s), ACCURACY_INCREASE_THRESHOLD)
            \/ s.current_streak >= STREAK_FOR_INCREASE
         THEN Min(current + 1, MAX_DIFFICULTY)
    ELSE IF Below(accuracy(s), ACCURACY_DECREASE_THRESHOLD)
         THEN Max(current - 1, MIN_DIFFICULTY)
    ELSE current

\* db.query(KnowledgeScore).filter(topic == topic).first(): the index of the row, 0 for None
FirstScore(table, topic) ==
    IF \E i \in 1..Len(table) : table[i].topic = topic
    THEN CHOOSE i \in 1..Len(table) :
             table[i].topic = topic /\ \A j \in 1..(i - 1) : table[j].topic # topic
    ELSE 0

\* the counters of record_attempt, an incorrect answer resetting the best streak too
UpdateCountersResettingBest(s, correct) ==
    LET counted == [s EXCEPT !.total_attempts = @ + 1] IN
    IF correct
    THEN LET streak == counted.current_streak + 1 IN
         [counted EXCEPT !.correct_attempts = @ + 1,
                         !.current_streak = streak,
                         !.best_streak = IF streak > @ THEN streak ELSE @]
    ELSE [counted EXCEPT !.current_streak = 0, !.best_streak = 0]

\* the counters of record_attempt, a correct answer never raising the best streak
UpdateCountersKeepingBest(s, correct) ==
    LET counted == [s EXCEPT !.total_attempts = @ + 1] IN
    IF correct
    THEN [counted EXCEPT !.correct_attempts = @ + 1, !.current_streak = @ + 1]
    ELSE [counted EXCEPT !.current_streak = 0]

\* the counters of record_attempt on the loaded score object
UpdateCounters(s, correct) ==
    LET counted == [s EXCEPT !.total_attempts = @ + 1] IN
    IF correct
    THEN LET streak == counted.current_streak + 1 IN
         [counted EXCEPT !.correct_attempts = @ + 1,
                         !.current_streak = streak,
                         !.best_streak = IF streak > @ THEN streak ELSE @]
    ELSE [counted EXCEPT !.current_streak = 0]

\* record_attempt on the loaded score object: the counters, then the difficulty
UpdatedScore(s, correct) ==
    LET counted == UpdateCounters(s, correct)
    IN [counted EXCEPT !.current_difficulty = _calculate_new_difficulty(counted)]

\* the table after get_or_create_score(topic)
WithScore(table, topic) ==
    IF FirstScore(table, topic) = 0 THEN Append(table, NewKnowledgeScore(topic)) ELSE table

NoCall == [op |-> "none"]

\* ProgressionEngine.get_or_create_score(db, topic), as get_question calls it
GetOrCreateScore(topic) ==
    /\ knowledge_scores' = WithScore(knowledge_scores, topic)
    /\ last_call' = [op |-> "get_or_create_score", topic |-> topic]
    /\ UNCHANGED <<question_attempts, sessions, evalVars, compareVars, quizVars, apiVars>>

\* ProgressionEngine.record_attempt(db, question_type, correct), run from its first
\* statement to its return with no other call in between
RecordAttempt(question_type, correct) ==
    /\ LET table == WithScore(knowledge_scores, question_type)
           i == FirstScore(table, question_type)
       IN knowledge_scores' = [table EXCEPT ![i] = UpdatedScore(@, correct)]
    /\ question_attempts' = question_attempts (+) SetToBag({QuestionAttempt(question_type, correct)})
    /\ last_call' = [op |-> "record_attempt", question_type |-> question_type, correct |-> correct]
    /\ UNCHANGED <<sessions, evalVars, compareVars, quizVars, apiVars>>

\* reset_stats deleting the attempts and leaving the scores
ResetStatsKeepingScores ==
    /\ knowledge_scores' = knowledge_scores
    /\ question_attempts' = EmptyBag
    /\ last_call' = [op |-> "reset_stats", returned |-> TRUE]
    /\ UNCHANGED <<sessions, evalVars, compareVars, quizVars, apiVars>>

\* ProgressionEngine.reset_stats(db)
ResetStats ==
    /\ knowledge_scores' = <<>>
    /\ question_attempts' = EmptyBag
    /\ last_call' = [op |-> "reset_stats", returned |-> TRUE]
    /\ UNCHANGED <<sessions, evalVars, compareVars, quizVars, apiVars>>

(***************************************************************************)
(* record_attempt statement by statement, for requests served at the same  *)
(* time: each request has a database session of its own (get_db), whose    *)
(* SELECT sees what is committed by then and whose commit writes, in one    *)
(* transaction, the rows it added and the columns it changed on the        *)
(* objects it loaded.                                                      *)
(***************************************************************************)
NumSessions == 2
Sessions == 1..NumSessions

Idle == [pc |-> "idle"]

\* record_attempt is entered: the QuestionAttempt is added to the session (db.add)
BeginAttempt(p, question_type, correct) ==
    /\ sessions[p].pc = "idle"
    /\ sessions' = [sessions EXCEPT ![p] =
            [pc |-> "query", question_type |-> question_type, correct |-> correct,
             attempt_pending |-> TRUE]]
    /\ UNCHANGED <<dbVars, last_call, evalVars, compareVars, quizVars, apiVars>>

\* get_or_create_score: the query for the topic's score, .first()
QueryScore(p) ==
    /\ sessions[p].pc = "query"
    /\ LET i == FirstScore(knowledge_scores, sessions[p].question_type) IN
       sessions' = [sessions EXCEPT ![p] =
            IF i = 0
            THEN [@ EXCEPT !.pc = "create"]
            ELSE [pc |-> "update", question_type |-> @.question_type, correct |-> @.correct,
                  attempt_pending |-> @.attempt_pending,
                  row |-> i, score |-> knowledge_scores[i]]]
    /\ UNCHANGED <<dbVars, last_call, evalVars, compareVars, quizVars, apiVars>>

\* get_or_create_score found no score: db.add(score), db.commit(), which writes the
\* session's pending QuestionAttempt as well
CreateScore(p) ==
    /\ sessions[p].pc = "create"
    /\ knowledge_scores' = Append(knowledge_scores, NewKnowledgeScore(sessions[p].question_type))
    /\ question_attempts' = question_attempts (+)
            SetToBag({QuestionAttempt(sessions[p].question_type, sessions[p].correct)})
    /\ sessions' = [sessions EXCEPT ![p] =
            [pc |-> "refresh", question_type |-> @.question_type, correct |-> @.correct,
             attempt_pending |-> FALSE, row |-> Len(knowledge_scores) + 1]]
    /\ UNCHANGED <<last_call, evalVars, compareVars, quizVars, apiVars>>

\* get_or_create_score: db.refresh(score) of the score just created
RefreshScore(p) ==
    /\ sessions[p].pc = "refresh"
    /\ sessions' = [sessions EXCEPT ![p] =
            [pc |-> "update", question_type |-> @.question_type, correct |-> @.correct,
             attempt_pending |-> @.attempt_pending,
             row |-> @.row, score |-> knowledge_scores[@.row]]]
    /\ UNCHANGED <<dbVars, last_call, evalVars, compareVars, quizVars, apiVars>>

\* the row after the UPDATE a commit sends for a loaded object: the columns whose
\* value the session changed take the session's value, the others stay as they are
Flushed(current, loaded, changed) ==
    [column \in DOMAIN current |->
        IF changed[column] # loaded[column] THEN changed[column] ELSE current[column]]

\* the counters and the difficulty set on the loaded score, and db.commit()
CommitAttempt(p) ==
    /\ sessions[p].pc = "update"
    /\ LET s == sessions[p]
           changed == UpdatedScore(s.score, s.correct)
       IN /\ knowledge_scores' = [knowledge_scores EXCEPT
                                    ![s.row] = Flushed(@, s.score, changed)]
          /\ question_attempts' =
                IF s.attempt_pending
                THEN question_attempts (+) SetToBag({QuestionAttempt(s.question_type, s.correct)})
                ELSE question_attempts
          /\ sessions' = [sessions EXCEPT ![p] =
                [pc |-> "return", question_type |-> s.question_type, correct |-> s.correct,
                 row |-> s.row]]
    /\ UNCHANGED <<last_call, evalVars, compareVars, quizVars, apiVars>>

\* db.refresh(score) and the return of record_attempt
ReturnScore(p) ==
    /\ sessions[p].pc = "return"
    /\ last_call' = [op |-> "record_attempt", question_type |-> sessions[p].question_type,
                     correct |-> sessions[p].correct]
    /\ sessions' = [sessions EXCEPT ![p] = Idle]
    /\ UNCHANGED <<dbVars, evalVars, compareVars, quizVars, apiVars>>

\* record_attempt fails at the statement it has reached (the query, a commit or a
\* refresh raises, or the worker stops): the exception leaves submit_answer, get_db
\* closes the session, and what the session has not committed is rolled back
FailAttempt(p) ==
    /\ sessions[p].pc # "idle"
    /\ last_call' = [op |-> "record_attempt_failed",
                     question_type |-> sessions[p].question_type,
                     correct |-> sessions[p].correct]
    /\ sessions' = [sessions EXCEPT ![p] = Idle]
    /\ UNCHANGED <<dbVars, evalVars, compareVars, quizVars, apiVars>>

NoSessions == sessions = [p \in Sessions |-> Idle]

EngineUnused ==
    /\ knowledge_scores = <<>>
    /\ question_attempts = EmptyBag
    /\ last_call = NoCall
    /\ NoSessions

(***************************************************************************)
(* Inputs of the evaluator: hands of 5, 6 and 7 distinct cards.  A hand    *)
(* is a rank tuple (every multiset of ranks, highest first) under a suit   *)
(* assignment, handed over as dealt or rotated.                            *)
(***************************************************************************)
NumLowRanks == 5

\* the rank tuples of length n over pool with no rank above hi, highest first
RECURSIVE DescRankTuples(_, _, _)
DescRankTuples(n, pool, hi) ==
    IF n = 0 THEN {<<>>}
    ELSE UNION {{<<r>> \o t : t \in DescRankTuples(n - 1, pool, r)} : r \in {x \in pool : x <= hi}}

\* Suit assignments for n cards: all of one suit but the cards at the
\* positions off, which take other suits (up to n - 5 of them leave a flush
\* among the cards, n - 4 leave four to a flush), and one with the suits in turn.
SuitPatterns(n) ==
    {[i \in 1..n |-> IF i \in off THEN (Cardinality(off) + 1 + (i % 3)) % 4
                     ELSE Cardinality(off) % 4] :
        off \in {o \in SUBSET (1..n) : Cardinality(o) <= n - 4}}
    \cup {[i \in 1..n |-> i % 4]}

Distinct(cs) == \A i, j \in 1..Len(cs) : i # j => cs[i] # cs[j]

Rotate(cs, k) == [i \in 1..Len(cs) |-> cs[((i + k - 1) % Len(cs)) + 1]]

InputRotations == {0, 2}

HandsOf(n, pool, rotations) ==
    {Rotate(cs, k) :
        cs \in {h \in {[i \in 1..n |-> [rank |-> t[i], suit |-> p[i]]] :
                           t \in DescRankTuples(n, pool, 14), p \in SuitPatterns(n)} : Distinct(h)},
        k \in rotations}

\* the ranks of the 6- and 7-card inputs: the low ranks and the ace
RankPool == (2..(1 + NumLowRanks)) \cup {14}

\* parse_cards of the notation the tests use, e.g. C(14, 0) for "Ah"
C(r, s) == [rank |-> r, suit |-> s]

\* test_seven_card_evaluation: Ah Kh Qh Jh 10h 2d 3c
SevenCardTestHand == <<C(14, 0), C(13, 0), C(12, 0), C(11, 0), C(10, 0), C(2, 1), C(3, 2)>>

Hands5 == HandsOf(5, Rank, InputRotations)
Hands6 == HandsOf(6, RankPool, InputRotations)
Hands7 == HandsOf(7, RankPool, InputRotations) \cup {SevenCardTestHand}

NotEvaluated == [pending |-> TRUE]

NotCompared == [pending |-> TRUE]

\* no evaluate call, no compare_hands call
NotSynthesized == [pending |-> TRUE]
NoQuestion == [pending |-> TRUE]
NoStartingCall == [op |-> "none"]

EvalUnused == cards = <<>> /\ evaluated = NotEvaluated
QuizUnused == synthesized = NotSynthesized /\ question = NoQuestion /\ starting = NoStartingCall

\* no request in progress
NoRequest == [pc |-> "idle"]
NotParsed == [pending |-> TRUE]
\* the empty dict
EmptyCache == [question_id \in {} |-> NoQuestion]

NoRequests == requests = [p \in Sessions |-> NoRequest]
ApiUnused ==
    /\ _question_cache = EmptyCache
    /\ question_ids = 0
    /\ NoRequests
    /\ parsed = NotParsed
CompareUnused == hand1 = <<>> /\ hand2 = <<>> /\ hand3 = <<>> /\ compared = NotCompared

InitEval ==
    /\ cards \in Hands5 \cup Hands6 \cup Hands7
    /\ evaluated = NotEvaluated
    /\ CompareUnused
    /\ EngineUnused
    /\ QuizUnused
    /\ ApiUnused

\* a call of HandEvaluator.evaluate(cards)
Evaluate ==
    /\ evaluated = NotEvaluated
    /\ cards # <<>>
    /\ evaluated' = evaluate(cards)
    /\ UNCHANGED <<cards, compareVars, engineVars, quizVars, apiVars>>

NextEval == Evaluate

SpecEval == InitEval /\ [][NextEval]_vars

(***************************************************************************)
(* Inputs of compare_hands: the hands of tests/test_hand_evaluator.py and  *)
(* the hands of 5 cards over the three highest ranks and of 6 and 7 cards  *)
(* over the two highest.                                                   *)
(***************************************************************************)
TestHands ==
    { <<C(14, 0), C(13, 0), C(12, 0), C(11, 0), C(10, 0)>>,     \* Ah Kh Qh Jh 10h
      <<C(14, 3), C(13, 3), C(12, 3), C(11, 3), C(10, 3)>>,     \* As Ks Qs Js 10s
      <<C(9, 0), C(8, 0), C(7, 0), C(6, 0), C(5, 0)>>,          \* 9h 8h 7h 6h 5h
      <<C(14, 0), C(14, 1), C(14, 2), C(14, 3), C(13, 0)>>,     \* Ah Ad Ac As Kh
      <<C(14, 0), C(14, 1), C(14, 2), C(13, 3), C(13, 0)>>,     \* Ah Ad Ac Ks Kh
      <<C(14, 0), C(13, 0), C(9, 0), C(7, 0), C(2, 0)>>,        \* Ah Kh 9h 7h 2h
      <<C(9, 0), C(8, 1), C(7, 2), C(6, 3), C(5, 0)>>,          \* 9h 8d 7c 6s 5h
      <<C(14, 0), C(2, 1), C(3, 2), C(4, 3), C(5, 0)>>,         \* Ah 2d 3c 4s 5h
      <<C(14, 0), C(14, 1), C(14, 2), C(13, 3), C(12, 0)>>,     \* Ah Ad Ac Ks Qh
      <<C(14, 0), C(14, 1), C(13, 2), C(13, 3), C(12, 0)>>,     \* Ah Ad Kc Ks Qh
      <<C(14, 0), C(14, 1), C(13, 2), C(12, 3), C(11, 0)>>,     \* Ah Ad Kc Qs Jh
      <<C(14, 3), C(14, 2), C(12, 1), C(11, 0), C(10, 3)>>,     \* As Ac Qd Jh 10s
      <<C(14, 0), C(13, 1), C(9, 2), C(7, 3), C(2, 0)>>,        \* Ah Kd 9c 7s 2h
      SevenCardTestHand }

ComparePool ==
    TestHands \cup HandsOf(5, {12, 13, 14}, {0}) \cup HandsOf(6, {13, 14}, {0})
              \cup HandsOf(7, {13, 14}, {0})

InitCompare ==
    /\ hand1 \in ComparePool
    /\ hand2 \in ComparePool
    /\ hand3 \in ComparePool
    /\ compared = NotCompared
    /\ EvalUnused
    /\ EngineUnused
    /\ QuizUnused
    /\ ApiUnused

\* the calls compare_hands(hand1, hand2), (hand2, hand1), (hand2, hand3), (hand1, hand3)
CompareHands ==
    /\ compared = NotCompared
    /\ hand1 # <<>>
    /\ compared' = [ab |-> compare_hands(hand1, hand2),
                    ba |-> compare_hands(hand2, hand1),
                    bc |-> compare_hands(hand2, hand3),
                    ac |-> compare_hands(hand1, hand3)]
    /\ UNCHANGED <<hand1, hand2, hand3, evalVars, engineVars, quizVars, apiVars>>

NextCompare == CompareHands

SpecCompare == InitCompare /\ [][NextCompare]_vars

(***************************************************************************)
(* The progression engine, its calls made one after another on an empty   *)
(* database.  Between two resets the attempts recorded are about one       *)
(* topic, MaxAttempts of them at most; scores of the other topics are      *)
(* created beside it.                                                      *)
(***************************************************************************)
MaxAttempts == 12

\* no attempt is recorded on a score of another topic
OnlyTopicAttempted(topic) ==
    \A i \in 1..Len(knowledge_scores) :
        knowledge_scores[i].total_attempts > 0 => knowledge_scores[i].topic = topic

Init ==
    /\ knowledge_scores = <<>>
    /\ question_attempts = EmptyBag
    /\ last_call = NoCall
    /\ NoSessions
    /\ EvalUnused
    /\ CompareUnused
    /\ QuizUnused
    /\ ApiUnused

Next ==
    \/ \E topic \in Topics : GetOrCreateScore(topic)
    \/ \E question_type \in Topics, correct \in BOOLEAN :
            /\ BagCardinality(question_attempts) < MaxAttempts
            /\ OnlyTopicAttempted(question_type)
            /\ RecordAttempt(question_type, correct)
    \/ ResetStats

Spec == Init /\ [][Next]_vars

(***************************************************************************)
(* record_attempt calls served at the same time, on an empty database,     *)
(* MaxConcurrentAttempts of them at most                                   *)
(***************************************************************************)
MaxConcurrentAttempts == 4

\* the record_attempt calls entered so far
AttemptsEntered ==
    BagCardinality(question_attempts)
        + Cardinality({p \in Sessions : sessions[p].pc \in {"query", "create"}})
        + Cardinality({p \in Sessions : sessions[p].pc = "update" /\ sessions[p].attempt_pending})

NextConcurrent ==
    \E p \in Sessions :
        \/ \E question_type \in Topics, correct \in BOOLEAN :
                /\ AttemptsEntered < MaxConcurrentAttempts
                /\ BeginAttempt(p, question_type, correct)
        \/ QueryScore(p)
        \/ CreateScore(p)
        \/ RefreshScore(p)
        \/ CommitAttempt(p)
        \/ ReturnScore(p)

SpecConcurrent == Init /\ [][NextConcurrent]_vars

(***************************************************************************)
(* record_attempt calls served one at a time, each of which may fail at    *)
(* any statement, MaxInterruptedAttempts of them committing anything        *)
(***************************************************************************)
MaxInterruptedAttempts == 4

NextInterrupted ==
    \E p \in Sessions :
        \/ \E question_type \in Topics, correct \in BOOLEAN :
                /\ \A q \in Sessions : sessions[q].pc = "idle"
                /\ AttemptsEntered < MaxInterruptedAttempts
                /\ BeginAttempt(p, question_type, correct)
        \/ QueryScore(p)
        \/ CreateScore(p)
        \/ RefreshScore(p)
        \/ CommitAttempt(p)
        \/ ReturnScore(p)
        \/ FailAttempt(p)

SpecInterrupted == Init /\ [][NextInterrupted]_vars

(***************************************************************************)
(* Topic recommendation (ProgressionEngine.get_recommended_topic)          *)
(***************************************************************************)
\* a < b for two accuracies.  The floats compare as the fractions do: equal fractions
\* divide to the same double, and two different ones over the attempt counts of the
\* model are further apart than the rounding of the division and the product.
Less(a, b) == a[1] * b[2] < b[1] * a[2]

\* the loop of get_recommended_topic from row i on: weakest is <<>> for None
RECURSIVE WeakestFrom(_, _, _, _)
WeakestFrom(scores, i, weakest, lowest_accuracy) ==
    IF i > Len(scores) THEN weakest
    ELSE IF scores[i].total_attempts >= 3 /\ Less(accuracy(scores[i]), lowest_accuracy)
         THEN WeakestFrom(scores, i + 1, <<scores[i].topic>>, accuracy(scores[i]))
    ELSE WeakestFrom(scores, i + 1, weakest, lowest_accuracy)

\* scores.sort(key=total_attempts) and scores[0]: the sort is stable, so the first of
\* the rows with the fewest attempts
FewestAttempts(scores) ==
    CHOOSE i \in 1..Len(scores) :
        /\ \A j \in 1..Len(scores) : scores[i].total_attempts <= scores[j].total_attempts
        /\ \A j \in 1..(i - 1) : scores[j].total_attempts > scores[i].total_attempts

\* ProgressionEngine.get_recommended_topic(db) on the rows scores of the user
get_recommended_topic(scores) ==
    IF Len(scores) = 0 THEN "hand_ranking"
    ELSE LET weakest == WeakestFrom(scores, 1, <<>>, <<100, 1>>)
             practiced_topics == {scores[i].topic : i \in 1..Len(scores)}
             unpracticed == {k \in 1..Len(TOPICS) : TOPICS[k] \notin practiced_topics}
         IN IF weakest = <<>>
            THEN IF unpracticed # {}
                 THEN TOPICS[CHOOSE k \in unpracticed : \A l \in unpracticed : k <= l]
                 ELSE scores[FewestAttempts(scores)].topic
            ELSE weakest[1]

\* a call of ProgressionEngine.get_recommended_topic(db)
GetRecommendedTopic ==
    /\ last_call' = [op |-> "get_recommended_topic",
                     topic |-> get_recommended_topic(knowledge_scores)]
    /\ UNCHANGED <<dbVars, sessions, evalVars, compareVars, quizVars, apiVars>>

(***************************************************************************)
(* Deck (app/engine/card.py) and the hand synthesis of QuestionGenerator   *)
(* (app/learning/question_generator.py).  The random draws of a call are   *)
(* taken from a record D of the outcomes considered: D.suits and D.ranks   *)
(* for random.choice over suits and ranks, D.highs for random.randint,     *)
(* and D.cuts for random.shuffle, which orders a list as Rotate(list, k)   *)
(* for a k in D.cuts.                                                      *)
(***************************************************************************)
RankList == [i \in 1..13 |-> i + 1]         \* list(Rank)
SuitList == [i \in 1..4 |-> i - 1]          \* list(Suit)

Elements(list) == {list[i] : i \in 1..Len(list)}

\* [x for x in list if x != out]
Without(list, out) == SelectSeq(list, LAMBDA x : x # out)

\* random.shuffle(list)
Shuffled(list, D) == {Rotate(list, k % Len(list)) : k \in D.cuts}

\* Deck.reset: the 52 cards, suit by suit, shuffled
DeckCards == [i \in 1..52 |-> C(((i - 1) % 13) + 2, (i - 1) \div 13)]
reset(D) == Shuffled(DeckCards, D)

\* Deck.draw(n) of a deck that holds n cards or more: the cards drawn
draw(deck, n) == SubSeq(deck, 1, n)

\* deck.cards.remove(card) for every card of exclude_cards that is in the deck
RemoveExcluded(deck, exclude_cards) ==
    SelectSeq(deck, LAMBDA c : c \notin Elements(exclude_cards))

\* sorted(available_ranks[:5], reverse=True) of the shuffled list(Rank)
FiveRanks(D) == {SortedDesc(SubSeq(shuffled, 1, 5)) : shuffled \in Shuffled(RankList, D)}

\* [random.choice(suits) for _ in range(5)], drawn again while all are the same suit
CardSuits(D) == {card_suits \in [1..5 -> D.suits] : Cardinality(Elements(card_suits)) # 1}

_make_royal_flush(deck, D) ==
    {<<C(14, suit), C(13, suit), C(12, suit), C(11, suit), C(10, suit)>> : suit \in D.suits}

\* what a maker's call ends in: the cards it returns, or the exception it raises
Returns(made) == {[cards |-> cs] : cs \in made}

\* Rank(r) raises ValueError for an r that is no rank
_make_straight_flush(deck, D) ==
    {IF \A i \in 1..5 : high_rank - i + 1 \in Rank
     THEN [cards |-> [i \in 1..5 |-> C(high_rank - i + 1, suit)]]
     ELSE ValueError :
        suit \in D.suits, high_rank \in (5..9) \cap D.highs}

_make_four_of_a_kind(deck, D) ==
    UNION {{SubSeq(<<C(quad_rank, 0), C(quad_rank, 1), C(quad_rank, 2), C(quad_rank, 3),
                     C(kicker_rank, suit)>>, 1, 5) :
                kicker_rank \in D.ranks \ {quad_rank}, suit \in D.suits} :
           quad_rank \in D.ranks}

_make_full_house(deck, D) ==
    UNION {{<<C(trips_rank, suits[1]), C(trips_rank, suits[2]), C(trips_rank, suits[3]),
              C(pair_rank, suits[1]), C(pair_rank, suits[2])>> :
                pair_rank \in D.ranks \ {trips_rank}, suits \in Shuffled(SuitList, D)} :
           trips_rank \in D.ranks}

_make_flush(deck, D) ==
    {[i \in 1..5 |-> C(ranks[i], suit)] :
        suit \in D.suits, ranks \in {r \in FiveRanks(D) : ~(r[1] - r[5] = 4)}}

_make_straight(deck, D) ==
    {[i \in 1..5 |-> C(ranks[i], card_suits[i])] :
        ranks \in {IF high_rank = 14 THEN <<14, 13, 12, 11, 10>>
                   ELSE IF high_rank = 5 THEN <<5, 4, 3, 2, 14>>
                   ELSE [i \in 1..5 |-> high_rank - i + 1] :
                        high_rank \in (5..14) \cap D.highs},
        card_suits \in CardSuits(D)}

_make_three_of_a_kind(deck, D) ==
    UNION {{<<C(trips_rank, suits[1]), C(trips_rank, suits[2]), C(trips_rank, suits[3]),
              C(other_ranks[1], s1), C(other_ranks[2], s2)>> :
                suits \in Shuffled(SuitList, D),
                other_ranks \in Shuffled(Without(RankList, trips_rank), D),
                s1 \in D.suits, s2 \in D.suits} :
           trips_rank \in D.ranks}

_make_two_pair(deck, D) ==
    {<<C(ranks[1], suits[1]), C(ranks[1], suits[2]), C(ranks[2], suits[3]),
       C(ranks[2], suits[4]), C(ranks[3], suit)>> :
        ranks \in Shuffled(RankList, D), suits \in Shuffled(SuitList, D), suit \in D.suits}

_make_one_pair(deck, D) ==
    UNION {{<<C(pair_rank, suits[1]), C(pair_rank, suits[2]),
              C(other_ranks[1], s[1]), C(other_ranks[2], s[2]), C(other_ranks[3], s[3])>> :
                suits \in Shuffled(SuitList, D),
                other_ranks \in Shuffled(Without(RankList, pair_rank), D),
                s \in [1..3 -> D.suits]} :
           pair_rank \in D.ranks}

_make_high_card(deck, D) ==
    {[i \in 1..5 |-> C(ranks[i], card_suits[i])] :
        ranks \in {r \in FiveRanks(D) :
                      ~(r[1] - r[5] = 4 \/ Elements(r) = {14, 5, 4, 3, 2})},
        card_suits \in CardSuits(D)}

\* the hands one pass of the loop of _generate_hand_of_rank may make, on any deck
\* that reset and the removal of exclude_cards may leave
Made(target_rank, exclude_cards, D) ==
    UNION {LET deck == RemoveExcluded(shuffled, exclude_cards) IN
           IF target_rank = ROYAL_FLUSH THEN Returns(_make_royal_flush(deck, D))
           ELSE IF target_rank = STRAIGHT_FLUSH THEN _make_straight_flush(deck, D)
           ELSE IF target_rank = FOUR_OF_A_KIND THEN Returns(_make_four_of_a_kind(deck, D))
           ELSE IF target_rank = FULL_HOUSE THEN Returns(_make_full_house(deck, D))
           ELSE IF target_rank = FLUSH THEN Returns(_make_flush(deck, D))
           ELSE IF target_rank = STRAIGHT THEN Returns(_make_straight(deck, D))
           ELSE IF target_rank = THREE_OF_A_KIND THEN Returns(_make_three_of_a_kind(deck, D))
           ELSE IF target_rank = TWO_PAIR THEN Returns(_make_two_pair(deck, D))
           ELSE IF target_rank = ONE_PAIR THEN Returns(_make_one_pair(deck, D))
           ELSE Returns(_make_high_card(deck, D)) :
        shuffled \in reset(D)}

max_attempts == 100

\* the loop of _generate_hand_of_rank over max_attempts passes: a pass returns a
\* hand that evaluates to the target rank, raises, or rejects its hand and leaves it
\* to the next pass; a pass is reached when all passes before it reject, and so is
\* the fallback after the last pass: 5 cards drawn from a deck reset once more
Passes(valid, raising, rejected, D) ==
    (IF max_attempts > 0
     THEN {[cards |-> made, fallback |-> FALSE] : made \in valid} \cup raising
     ELSE {})
    \cup
    (IF max_attempts = 0 \/ rejected # {}
     THEN {[cards |-> draw(deck, 5), fallback |-> TRUE] : deck \in reset(D)}
     ELSE {})

\* _generate_hand_of_rank returning the hand a pass makes without evaluating it
GenerateHandOfRankUnvalidated(target_rank, exclude_cards, D) ==
    LET made == Made(target_rank, exclude_cards, D)
        raising == made \cap {ValueError}
    IN Passes({m.cards : m \in made \ raising}, raising, {}, D)

\* QuestionGenerator._generate_hand_of_rank(target_rank, exclude_cards): what the
\* call may return or raise
_generate_hand_of_rank(target_rank, exclude_cards, D) ==
    LET made == Made(target_rank, exclude_cards, D)
        raising == made \cap {ValueError}
        valid == {m.cards : m \in {r \in made \ raising :
                                        evaluate(r.cards).rank = target_rank}}
        rejected == {r \in made \ raising : r.cards \notin valid}
    IN Passes(valid, raising, rejected, D)

(***************************************************************************)
(* One call of _generate_hand_of_rank, for any target rank, with no cards  *)
(* excluded or the cards of a hand excluded                                *)
(***************************************************************************)
SynthDraws == [suits |-> {0, 1, 3}, ranks |-> {2, 5, 9, 10, 14}, highs |-> 5..14,
               cuts |-> {0, 1, 9, 12}]

\* exclude_cards: none, or the royal flush of hearts
ExcludedHands == {<<>>, <<C(14, 0), C(13, 0), C(12, 0), C(11, 0), C(10, 0)>>}

InitSynth ==
    /\ QuizUnused
    /\ ApiUnused
    /\ EvalUnused
    /\ CompareUnused
    /\ EngineUnused

GenerateHandOfRank ==
    /\ synthesized = NotSynthesized
    /\ \E target_rank \in HandRank, exclude_cards \in ExcludedHands :
        \E result \in _generate_hand_of_rank(target_rank, exclude_cards, SynthDraws) :
            synthesized' = [target_rank |-> target_rank, exclude_cards |-> exclude_cards,
                            result |-> result]
    /\ UNCHANGED <<question, starting, evalVars, compareVars, engineVars, apiVars>>

NextSynth == GenerateHandOfRank

SpecSynth == InitSynth /\ [][NextSynth]_vars

(***************************************************************************)
(* QuestionGenerator._generate_which_wins_question                         *)
(***************************************************************************)
Abs(n) == IF n < 0 THEN 0 - n ELSE n

\* the pairs of target ranks the question may pick for a difficulty
TargetRanks(difficulty) ==
    IF difficulty <= 2
    THEN UNION {LET rank2_options == {r \in HandRank : Abs(r - rank1) >= 2} IN
                {<<rank1, rank2>> :
                    rank2 \in IF rank2_options # {} THEN rank2_options ELSE {HIGH_CARD}} :
                rank1 \in {ONE_PAIR, TWO_PAIR, FLUSH}}
    ELSE {<<rank1, rank1>> : rank1 \in HandRank}

\* the answer when a tie is given to the first hand
CorrectAnswerTieToHandOne(eval1, eval2) ==
    IF ~HandLt(eval1, eval2) THEN "Hand 1" ELSE "Hand 2"

\* the correct answer from the two evaluated hands
CorrectAnswer(eval1, eval2) ==
    IF HandGt(eval1, eval2) THEN "Hand 1"
    ELSE IF HandGt(eval2, eval1) THEN "Hand 2"
    ELSE "Tie"

\* what _generate_which_wins_question(difficulty) may return or raise
_generate_which_wins_question(difficulty, D) ==
    UNION {LET rank1 == ranks[1]
               rank2 == ranks[2]
           IN UNION {IF first = ValueError THEN {ValueError}
                     ELSE {IF second = ValueError THEN ValueError
                           ELSE [pc |-> "done", question_type |-> "which_wins",
                                 difficulty |-> difficulty,
                                 rank1 |-> rank1, rank2 |-> rank2,
                                 cards |-> first.cards, cards2 |-> second.cards,
                                 fallback |-> <<first.fallback, second.fallback>>,
                                 choices |-> <<"Hand 1", "Hand 2", "Tie">>,
                                 correct_answer |->
                                    CorrectAnswer(evaluate(first.cards), evaluate(second.cards))] :
                           second \in _generate_hand_of_rank(rank2, first.cards, D)} :
                     first \in _generate_hand_of_rank(rank1, <<>>, D)} :
           ranks \in TargetRanks(difficulty)}

(***************************************************************************)
(* One which_wins question, for any difficulty get_question passes on      *)
(***************************************************************************)
QuizDraws == [suits |-> {0, 1}, ranks |-> {9, 14}, highs |-> {5, 6, 14}, cuts |-> {0, 9, 12}]

\* get_question: difficulty = max(1, min(5, difficulty))
Difficulties == 1..5

InitWhichWins ==
    /\ QuizUnused
    /\ ApiUnused
    /\ EvalUnused
    /\ CompareUnused
    /\ EngineUnused

GenerateWhichWinsQuestion ==
    /\ question = NoQuestion
    /\ \E difficulty \in Difficulties :
        \E generated \in _generate_which_wins_question(difficulty, QuizDraws) :
            question' = generated
    /\ UNCHANGED <<synthesized, starting, evalVars, compareVars, engineVars, apiVars>>

NextWhichWins == GenerateWhichWinsQuestion

SpecWhichWins == InitWhichWins /\ [][NextWhichWins]_vars

(***************************************************************************)
(* Starting hands (app/engine/starting_hands.py).  A string is the         *)
(* sequence of its characters: "AKs" is <<"A", "K", "s">>, and the symbol  *)
(* "10" is <<"1", "0">>.                                                   *)
(***************************************************************************)
HandCategory_PREMIUM == 4
HandCategory_STRONG == 3
HandCategory_PLAYABLE == 2
HandCategory_MARGINAL == 1
HandCategory_WEAK == 0
HandCategory == {HandCategory_WEAK, HandCategory_MARGINAL, HandCategory_PLAYABLE,
                 HandCategory_STRONG, HandCategory_PREMIUM}

KeyError == [error |-> "KeyError"]

Digits == <<"0", "1", "2", "3", "4", "5", "6", "7", "8", "9">>

\* str(n) of an integer 0 <= n < 100
str(n) == IF n < 10 THEN <<Digits[n + 1]>> ELSE <<Digits[(n \div 10) + 1], Digits[(n % 10) + 1]>>

\* int(s) of a string of one or two digits
DigitValue(c) == CHOOSE d \in 0..9 : Digits[d + 1] = c
int(s) == IF Len(s) = 1 THEN DigitValue(s[1]) ELSE 10 * DigitValue(s[1]) + DigitValue(s[2])

\* s.isdigit(), s.upper(), s.lower() over the characters the notations use
isdigit(s) == Len(s) > 0 /\ \A i \in 1..Len(s) : s[i] \in Elements(Digits)
UpperChar(c) ==
    IF c = "t" THEN "T" ELSE IF c = "j" THEN "J" ELSE IF c = "q" THEN "Q"
    ELSE IF c = "k" THEN "K" ELSE IF c = "a" THEN "A"
    ELSE IF c = "s" THEN "S" ELSE IF c = "o" THEN "O"
    ELSE IF c = "h" THEN "H" ELSE IF c = "d" THEN "D" ELSE IF c = "c" THEN "C"
    ELSE IF c = "x" THEN "X" ELSE c
LowerChar(c) ==
    IF c = "T" THEN "t" ELSE IF c = "J" THEN "j" ELSE IF c = "Q" THEN "q"
    ELSE IF c = "K" THEN "k" ELSE IF c = "A" THEN "a"
    ELSE IF c = "S" THEN "s" ELSE IF c = "O" THEN "o"
    ELSE IF c = "H" THEN "h" ELSE IF c = "D" THEN "d" ELSE IF c = "C" THEN "c"
    ELSE IF c = "X" THEN "x" ELSE c
upper(s) == [i \in 1..Len(s) |-> UpperChar(s[i])]
lower(s) == [i \in 1..Len(s) |-> LowerChar(s[i])]

\* Rank.symbol
symbol(rank) ==
    IF rank <= 10 THEN str(rank)
    ELSE IF rank = 11 THEN <<"J">> ELSE IF rank = 12 THEN <<"Q">>
    ELSE IF rank = 13 THEN <<"K">> ELSE <<"A">>

\* Rank.from_symbol
from_symbol(s) ==
    LET up == upper(s) IN
    IF isdigit(up) THEN (IF int(up) \in Rank THEN int(up) ELSE ValueError)
    ELSE IF up = <<"T">> THEN 10 ELSE IF up = <<"J">> THEN 11 ELSE IF up = <<"Q">> THEN 12
    ELSE IF up = <<"K">> THEN 13 ELSE IF up = <<"A">> THEN 14
    ELSE KeyError

StartingHand(card1, card2, suited) == [card1 |-> card1, card2 |-> card2, suited |-> suited]

\* StartingHand.notation
notation(hand) ==
    IF hand.card1 = hand.card2 THEN hand.card1 \o hand.card2
    ELSE hand.card1 \o hand.card2 \o (IF hand.suited THEN <<"s">> ELSE <<"o">>)

PREMIUM ==
    {<<"A", "A">>, <<"K", "K">>, <<"Q", "Q">>, <<"A", "K", "s">>}
STRONG ==
    {<<"J", "J">>, <<"T", "T">>, <<"A", "K", "o">>, <<"A", "Q", "s">>,
     <<"A", "Q", "o">>, <<"A", "J", "s">>, <<"K", "Q", "s">>}
PLAYABLE ==
    {<<"9", "9">>, <<"8", "8">>, <<"7", "7">>, <<"A", "T", "s">>,
     <<"A", "J", "o">>, <<"K", "Q", "o">>, <<"K", "J", "s">>, <<"K", "T", "s">>,
     <<"Q", "J", "s">>, <<"Q", "T", "s">>, <<"J", "T", "s">>, <<"T", "9", "s">>,
     <<"9", "8", "s">>, <<"8", "7", "s">>, <<"7", "6", "s">>}
MARGINAL ==
    {<<"6", "6">>, <<"5", "5">>, <<"4", "4">>, <<"3", "3">>,
     <<"2", "2">>, <<"A", "9", "s">>, <<"A", "8", "s">>, <<"A", "7", "s">>,
     <<"A", "6", "s">>, <<"A", "5", "s">>, <<"A", "4", "s">>, <<"A", "3", "s">>,
     <<"A", "2", "s">>, <<"A", "T", "o">>, <<"K", "J", "o">>, <<"K", "T", "o">>,
     <<"Q", "J", "o">>, <<"Q", "T", "o">>, <<"J", "T", "o">>, <<"K", "9", "s">>,
     <<"Q", "9", "s">>, <<"J", "9", "s">>, <<"T", "8", "s">>, <<"9", "7", "s">>,
     <<"8", "6", "s">>, <<"7", "5", "s">>, <<"6", "5", "s">>, <<"5", "4", "s">>}

RANK_ORDER == <<"A", "K", "Q", "J", "T", "9", "8", "7", "6", "5", "4", "3", "2">>

\* StartingHands.get_category with no check of the marginal set
GetCategoryWithoutMarginal(hand) ==
    IF notation(hand) \in PREMIUM THEN HandCategory_PREMIUM
    ELSE IF notation(hand) \in STRONG THEN HandCategory_STRONG
    ELSE IF notation(hand) \in PLAYABLE THEN HandCategory_PLAYABLE
    ELSE HandCategory_WEAK

\* StartingHands.get_category
get_category(hand) ==
    IF notation(hand) \in PREMIUM THEN HandCategory_PREMIUM
    ELSE IF notation(hand) \in STRONG THEN HandCategory_STRONG
    ELSE IF notation(hand) \in PLAYABLE THEN HandCategory_PLAYABLE
    ELSE IF notation(hand) \in MARGINAL THEN HandCategory_MARGINAL
    ELSE HandCategory_WEAK

\* StartingHands.from_cards
from_cards(card1, card2) ==
    LET r1 == IF card2.rank > card1.rank THEN card2.rank ELSE card1.rank
        r2 == IF card2.rank > card1.rank THEN card1.rank ELSE card2.rank
    IN StartingHand(symbol(r1), symbol(r2), card1.suit = card2.suit)

\* StartingHands.from_notation
from_notation(n) ==
    IF Len(n) = 2 THEN StartingHand(<<n[1]>>, <<n[2]>>, FALSE)
    ELSE IF Len(n) = 3 THEN StartingHand(<<n[1]>>, <<n[2]>>, lower(<<n[3]>>) = <<"s">>)
    ELSE ValueError

\* _notation_to_cards giving both cards of an offsuit hand the first suit
NotationToCardsOneSuit(hand) ==
    {<<C(from_symbol(hand.card1), suits[1]), C(from_symbol(hand.card2), suits[1])>> :
        suits \in {s \in [1..4 -> Suit] : Elements(s) = Suit}}

\* StartingHands._notation_to_cards: the card pairs it may return, over every
\* outcome of random.shuffle(suits)
_notation_to_cards(hand) ==
    LET rank1 == from_symbol(hand.card1)
        rank2 == from_symbol(hand.card2)
    IN {IF hand.suited
        THEN <<C(rank1, suits[1]), C(rank2, suits[1])>>
        ELSE <<C(rank1, suits[1]), C(rank2, suits[2])>> :
            suits \in {s \in [1..4 -> Suit] : Elements(s) = Suit}}

\* the notations the loop of generate_random(WEAK) may leave with
WeakNotations ==
    {n \in {LET c1 == RANK_ORDER[(IF r1_idx > r2_idx THEN r2_idx ELSE r1_idx) + 1]
                c2 == RANK_ORDER[(IF r1_idx > r2_idx THEN r1_idx ELSE r2_idx) + 1]
            IN IF c1 = c2 THEN <<c1, c2>>
               ELSE <<c1, c2, IF suited THEN "s" ELSE "o">> :
                r1_idx \in 0..12, r2_idx \in 0..12, suited \in BOOLEAN} :
        n \notin PREMIUM \cup STRONG \cup PLAYABLE \cup MARGINAL}

\* StartingHands.generate_random(category): the (hand, cards) pairs it may return;
\* category is Optional[HandCategory]: <<>> for None, <<c>> for a category c
generate_random(category) ==
    LET notations ==
            IF category # <<>>
            THEN IF category[1] = HandCategory_WEAK THEN WeakNotations
                 ELSE IF category[1] = HandCategory_PREMIUM THEN PREMIUM
                 ELSE IF category[1] = HandCategory_STRONG THEN STRONG
                 ELSE IF category[1] = HandCategory_PLAYABLE THEN PLAYABLE
                 ELSE MARGINAL
            ELSE PREMIUM \cup STRONG \cup PLAYABLE \cup MARGINAL
    IN UNION {{<<from_notation(n), cs>> : cs \in _notation_to_cards(from_notation(n))} :
              n \in notations}

\* should_play asking for a playable hand in early position
ShouldPlayEarlyPlayable(hand, position) ==
    IF position \in {"late", "blinds"} THEN get_category(hand) >= HandCategory_MARGINAL
    ELSE get_category(hand) >= HandCategory_PLAYABLE

\* StartingHands.should_play
should_play(hand, position) ==
    LET category == get_category(hand) IN
    IF position = "early" THEN category >= HandCategory_STRONG
    ELSE IF position = "middle" THEN category >= HandCategory_PLAYABLE
    ELSE IF position \in {"late", "blinds"} THEN category >= HandCategory_MARGINAL
    ELSE category >= HandCategory_PLAYABLE

(***************************************************************************)
(* One StartingHands call: get_category or should_play of any hand over    *)
(* the rank symbols, from_cards of any two distinct cards, generate_random *)
(* of any category or of none                                              *)
(***************************************************************************)
\* the symbols a StartingHand is built from: the characters of RANK_ORDER
\* (from_notation) and the symbols of the ranks (from_cards)
CardSymbols == {<<RANK_ORDER[i]>> : i \in 1..Len(RANK_ORDER)} \cup {symbol(r) : r \in Rank}

StartingHandInputs ==
    {StartingHand(c1, c2, suited) : c1 \in CardSymbols, c2 \in CardSymbols, suited \in BOOLEAN}

\* QuestionGenerator.POSITIONS, the default "any", and a position of no branch
Positions == {"early", "middle", "late", "blinds", "any", "button"}

InitStarting ==
    /\ QuizUnused
    /\ ApiUnused
    /\ EvalUnused
    /\ CompareUnused
    /\ EngineUnused

GetCategory ==
    /\ starting = NoStartingCall
    /\ \E hand \in StartingHandInputs :
        starting' = [op |-> "get_category", hand |-> hand, result |-> get_category(hand)]
    /\ UNCHANGED <<synthesized, question, evalVars, compareVars, engineVars, apiVars>>

FromCards ==
    /\ starting = NoStartingCall
    /\ \E card1 \in Card, card2 \in Card :
        /\ card1 # card2
        /\ starting' = [op |-> "from_cards", card1 |-> card1, card2 |-> card2,
                        result |-> from_cards(card1, card2)]
    /\ UNCHANGED <<synthesized, question, evalVars, compareVars, engineVars, apiVars>>

ShouldPlay ==
    /\ starting = NoStartingCall
    /\ \E hand \in StartingHandInputs, position \in Positions :
        starting' = [op |-> "should_play", hand |-> hand, position |-> position,
                     result |-> should_play(hand, position)]
    /\ UNCHANGED <<synthesized, question, evalVars, compareVars, engineVars, apiVars>>

GenerateRandom ==
    /\ starting = NoStartingCall
    /\ \E category \in {<<>>} \cup {<<c>> : c \in HandCategory} :
        \E result \in generate_random(category) :
            starting' = [op |-> "generate_random", category |-> category,
                         hand |-> result[1], cards |-> result[2]]
    /\ UNCHANGED <<synthesized, question, evalVars, compareVars, engineVars, apiVars>>

NextStarting == GetCategory \/ FromCards \/ ShouldPlay \/ GenerateRandom

SpecStarting == InitStarting /\ [][NextStarting]_vars

(***************************************************************************)
(* Card notation (app/engine/card.py): str(card) and Card.from_string.     *)
(* What a call raises is <<>> when it returns, <<exception>> otherwise.    *)
(***************************************************************************)
\* Suit.letter
letter(suit) == IF suit = 0 THEN "h" ELSE IF suit = 1 THEN "d" ELSE IF suit = 2 THEN "c" ELSE "s"

\* Card.__str__
CardStr(card) == symbol(card.rank) \o <<letter(card.suit)>>

\* the exception Rank.from_symbol(s) raises: ValueError from Rank(int(symbol)),
\* KeyError from mapping[symbol]
FromSymbolRaises(s) ==
    LET up == upper(s) IN
    IF isdigit(up) THEN (IF int(up) \in Rank THEN <<>> ELSE <<ValueError>>)
    ELSE IF up \in {<<"T">>, <<"J">>, <<"Q">>, <<"K">>, <<"A">>} THEN <<>>
    ELSE <<KeyError>>

\* Suit.from_letter, and the exception it raises
from_letter(s) ==
    LET low == lower(s) IN
    IF low = <<"h">> THEN 0 ELSE IF low = <<"d">> THEN 1
    ELSE IF low = <<"c">> THEN 2 ELSE 3
FromLetterRaises(s) ==
    IF lower(s) \in {<<"h">>, <<"d">>, <<"c">>, <<"s">>} THEN <<>> ELSE <<KeyError>>

\* ValueError(f"Invalid card notation: {s}")
InvalidCardNotation == [error |-> "ValueError", message |-> "Invalid card notation"]

\* Card.from_string(s): [card |-> the card], or the exception; the rank is parsed
\* before the suit
from_string(s) ==
    IF Len(s) < 2 THEN InvalidCardNotation
    ELSE LET rank_str == SubSeq(s, 1, Len(s) - 1)
             suit_str == <<s[Len(s)]>>
         IN IF FromSymbolRaises(rank_str) # <<>> THEN FromSymbolRaises(rank_str)[1]
            ELSE IF FromLetterRaises(suit_str) # <<>> THEN FromLetterRaises(suit_str)[1]
            ELSE [card |-> C(from_symbol(rank_str), from_letter(suit_str))]

(***************************************************************************)
(* One call of Card.from_string, on any string of up to MaxNotationLen     *)
(* characters of NotationChars, and on str(card) of each of the 52 cards   *)
(***************************************************************************)
MaxNotationLen == 3
NotationChars == {"0", "1", "2", "4", "9", "T", "a", "J", "h", "H", "s", "x"}

Strings(n) == UNION {[1..k -> NotationChars] : k \in 0..n}
NotationInputs == Strings(MaxNotationLen) \cup {CardStr(card) : card \in Card}

InitParse ==
    /\ parsed = NotParsed
    /\ _question_cache = EmptyCache
    /\ question_ids = 0
    /\ NoRequests
    /\ QuizUnused
    /\ EvalUnused
    /\ CompareUnused
    /\ EngineUnused

FromString ==
    /\ parsed = NotParsed
    /\ \E s \in NotationInputs : parsed' = [s |-> s, result |-> from_string(s)]
    /\ UNCHANGED <<_question_cache, question_ids, requests, quizVars, evalVars, compareVars, engineVars>>

NextParse == FromString

SpecParse == InitParse /\ [][NextParse]_vars

(***************************************************************************)
(* QuestionGenerator.generate: the hand_ranking and starting_hand          *)
(* questions (app/learning/question_generator.py).  A hand_ranking         *)
(* question is followed through the loop that fills its choices: pc is     *)
(* "fill" while the loop runs and "done" once the question is returned.    *)
(***************************************************************************)
\* HandRank.display_name
display_name(rank) ==
    IF rank = HIGH_CARD THEN "High Card" ELSE IF rank = ONE_PAIR THEN "One Pair"
    ELSE IF rank = TWO_PAIR THEN "Two Pair"
    ELSE IF rank = THREE_OF_A_KIND THEN "Three of a Kind"
    ELSE IF rank = STRAIGHT THEN "Straight" ELSE IF rank = FLUSH THEN "Flush"
    ELSE IF rank = FULL_HOUSE THEN "Full House"
    ELSE IF rank = FOUR_OF_A_KIND THEN "Four of a Kind"
    ELSE IF rank = STRAIGHT_FLUSH THEN "Straight Flush" ELSE "Royal Flush"

\* list(HandRank)
HandRankList == [i \in 1..10 |-> i]

\* target_ranks of a hand_ranking question
HandRankingTargets(difficulty) ==
    IF difficulty <= 2
    THEN {ONE_PAIR, TWO_PAIR, THREE_OF_A_KIND, STRAIGHT, FLUSH, FULL_HOUSE}
    ELSE IF difficulty <= 4 THEN HandRank
    ELSE {HIGH_CARD, ONE_PAIR, TWO_PAIR, STRAIGHT, FLUSH}

\* nearby_ranks with the target rank left in
NearbyRanksWithTarget(target_rank) ==
    SelectSeq(HandRankList, LAMBDA r : Abs(r - target_rank) <= 2)

\* nearby_ranks, in the order of HandRank
nearby_ranks(target_rank) ==
    SelectSeq(HandRankList, LAMBDA r : Abs(r - target_rank) <= 2 /\ r # target_rank)

\* random.sample(population, k)
Sample(population, k, D) == {SubSeq(shuffled, 1, k) : shuffled \in Shuffled(population, D)}

\* _generate_hand_ranking_question(difficulty) up to the loop that fills the choices:
\* the questions it may have built by then, or the exception raised
_generate_hand_ranking_question(difficulty, D) ==
    UNION {UNION {IF hand = ValueError THEN {ValueError}
                  ELSE {[pc |-> "fill", question_type |-> "hand_ranking",
                         difficulty |-> difficulty, target_rank |-> target_rank,
                         cards |-> hand.cards, fallback |-> hand.fallback,
                         choices |-> <<display_name(target_rank)>>
                                        \o [i \in 1..Len(wrong) |-> display_name(wrong[i])],
                         correct_answer |-> display_name(target_rank)] :
                        wrong \in Sample(nearby_ranks(target_rank),
                                         Min(2, Len(nearby_ranks(target_rank))), D)} :
                  hand \in _generate_hand_of_rank(target_rank, <<>>, D)} :
           target_rank \in HandRankingTargets(difficulty)}

\* POSITIONS
POSITIONS == <<"early", "middle", "late", "blinds">>

\* StartingHands.get_category_name
get_category_name(category) ==
    IF category = HandCategory_PREMIUM THEN "Premium"
    ELSE IF category = HandCategory_STRONG THEN "Strong"
    ELSE IF category = HandCategory_PLAYABLE THEN "Playable"
    ELSE IF category = HandCategory_MARGINAL THEN "Marginal" ELSE "Weak"

\* categories of a starting_hand question
StartingHandCategories(difficulty) ==
    IF difficulty <= 2 THEN {HandCategory_PREMIUM, HandCategory_STRONG, HandCategory_WEAK}
    ELSE IF difficulty <= 4
         THEN {HandCategory_PLAYABLE, HandCategory_MARGINAL, HandCategory_WEAK}
    ELSE {HandCategory_MARGINAL, HandCategory_WEAK}

\* _generate_starting_hand_question(difficulty): the questions it may return;
\* position is <<>> for None
_generate_starting_hand_question(difficulty) ==
    UNION {UNION {LET hand == dealt[1]
                      made == dealt[2]
                  IN IF difficulty >= 3
                     THEN {[pc |-> "done", question_type |-> "starting_hand",
                            difficulty |-> difficulty, cards |-> made, hand |-> hand,
                            category |-> category, position |-> <<POSITIONS[k]>>,
                            choices |-> <<"Play", "Fold">>,
                            correct_answer |->
                                IF should_play(hand, POSITIONS[k]) THEN "Play" ELSE "Fold"] :
                           k \in 1..Len(POSITIONS)}
                     ELSE {[pc |-> "done", question_type |-> "starting_hand",
                            difficulty |-> difficulty, cards |-> made, hand |-> hand,
                            category |-> category, position |-> <<>>,
                            choices |-> <<"Premium", "Strong", "Playable", "Marginal", "Weak">>,
                            correct_answer |-> get_category_name(category)]} :
                  dealt \in generate_random(<<category>>)} :
           category \in StartingHandCategories(difficulty)}

(***************************************************************************)
(* One question of any type and difficulty.  The draws of hand_ranking and *)
(* which_wins questions are taken from QuizDraws; random.choice in the     *)
(* fill loop draws any rank.                                               *)
(***************************************************************************)
InitGenerate ==
    /\ QuizUnused
    /\ ApiUnused
    /\ EvalUnused
    /\ CompareUnused
    /\ EngineUnused

\* generate("hand_ranking", difficulty), up to the fill loop
GenerateHandRankingQuestion ==
    /\ question = NoQuestion
    /\ \E difficulty \in Difficulties :
        \E generated \in _generate_hand_ranking_question(difficulty, QuizDraws) :
            question' = generated
    /\ UNCHANGED <<synthesized, starting, evalVars, compareVars, engineVars, apiVars>>

Filling ==
    /\ question # NoQuestion
    /\ question # ValueError
    /\ question.question_type = "hand_ranking"
    /\ question.pc = "fill"

\* one pass of the loop: r = random.choice(list(HandRank)), appended when new
FillChoices ==
    /\ Filling
    /\ Len(question.choices) < 4
    /\ \E r \in HandRank :
        question' = IF \A i \in 1..Len(question.choices) : question.choices[i] # display_name(r)
                    THEN [question EXCEPT !.choices = Append(@, display_name(r))]
                    ELSE question
    /\ UNCHANGED <<synthesized, starting, evalVars, compareVars, engineVars, apiVars>>

\* the loop is left: random.shuffle(choices) and the question is returned
ShuffleChoices ==
    /\ Filling
    /\ Len(question.choices) >= 4
    /\ \E shuffled \in Shuffled(question.choices, QuizDraws) :
        question' = [question EXCEPT !.pc = "done", !.choices = shuffled]
    /\ UNCHANGED <<synthesized, starting, evalVars, compareVars, engineVars, apiVars>>

\* generate("starting_hand", difficulty)
GenerateStartingHandQuestion ==
    /\ question = NoQuestion
    /\ \E difficulty \in Difficulties :
        \E generated \in _generate_starting_hand_question(difficulty) :
            question' = generated
    /\ UNCHANGED <<synthesized, starting, evalVars, compareVars, engineVars, apiVars>>

NextGenerate ==
    \/ GenerateHandRankingQuestion
    \/ FillChoices
    \/ ShuffleChoices
    \/ GenerateWhichWinsQuestion
    \/ GenerateStartingHandQuestion

SpecGenerate == InitGenerate /\ [][NextGenerate]_vars

\* random.choice does not leave out the ranks still missing for ever
SpecGenerateFair == SpecGenerate /\ WF_vars(FillChoices)

(***************************************************************************)
(* The training and stats endpoints (app/api/training.py,                  *)
(* app/api/stats.py), each request served from its first statement to its  *)
(* response with no other request in between.  A cached question is kept   *)
(* as what submit_answer reads of it: its type, difficulty and             *)
(* correct_answer.  Question ids are uuid4 strings, modelled as the        *)
(* numbers 1, 2, ... in the order they are drawn.                          *)
(***************************************************************************)
QUESTION_TYPES == {"hand_ranking", "which_wins", "starting_hand"}

\* the correct answers generate(question_type, difficulty) can give a question
CorrectAnswers(question_type, difficulty) ==
    IF question_type = "hand_ranking"
    THEN {display_name(r) : r \in HandRankingTargets(difficulty)}
    ELSE IF question_type = "which_wins" THEN {"Hand 1", "Hand 2", "Tie"}
    ELSE IF difficulty >= 3 THEN {"Play", "Fold"}
    ELSE {get_category_name(c) : c \in StartingHandCategories(difficulty)}

\* generate(question_type, difficulty) can raise: a straight flush may be asked for
GenerateRaises(question_type, difficulty) ==
    IF question_type = "hand_ranking" THEN STRAIGHT_FLUSH \in HandRankingTargets(difficulty)
    ELSE IF question_type = "which_wins"
         THEN \E ranks \in TargetRanks(difficulty) : STRAIGHT_FLUSH \in {ranks[1], ranks[2]}
    ELSE FALSE

\* QuestionGenerator.generate(question_type, difficulty): the questions it may return,
\* and the exception when it may raise
generate(question_type, difficulty) ==
    {[question_type |-> question_type, difficulty |-> difficulty, correct_answer |-> a] :
        a \in CorrectAnswers(question_type, difficulty)}
    \cup (IF GenerateRaises(question_type, difficulty) THEN {ValueError} ELSE {})

\* a lookup answering with the question cached first for an id the cache does
\* not hold
GetSomeQuestion(cache, question_id) ==
    IF question_id \in DOMAIN cache THEN cache[question_id]
    ELSE IF DOMAIN cache = {} THEN None
    ELSE cache[CHOOSE k \in DOMAIN cache : \A l \in DOMAIN cache : k <= l]

\* _question_cache.get(question_id)
get(cache, question_id) ==
    IF question_id \in DOMAIN cache THEN cache[question_id] ELSE None

\* _question_cache[question_id] = question
Put(cache, question_id, q) ==
    [k \in DOMAIN cache \cup {question_id} |-> IF k = question_id THEN q ELSE cache[k]]

\* del _question_cache[question_id]
Del(cache, question_id) == [k \in DOMAIN cache \ {question_id} |-> cache[k]]

\* GET /question: requested_type and requested_difficulty are the parameters
\* question_type and difficulty of the request, <<>> when the request leaves them out.  Without a question_type the topic is the recommended one; a type that is no
\* question type is refused (400) before anything is written; without a difficulty
\* the handler reads it from get_or_create_score, which creates and commits the
\* topic's score when there is none; the question generated is cached under a new id,
\* unless generate raises.  drawn is what the random choices of generate lead to: the
\* correct answer of the question, or "ValueError" when they make it raise.
GetQuestion(requested_type, requested_difficulty, drawn) ==
    LET topic == IF requested_type = <<>> THEN get_recommended_topic(knowledge_scores)
                 ELSE requested_type[1]
        refused == topic \notin QUESTION_TYPES
        scores == IF ~refused /\ requested_difficulty = <<>>
                  THEN WithScore(knowledge_scores, topic)
                  ELSE knowledge_scores
        asked == IF requested_difficulty = <<>>
                 THEN scores[FirstScore(scores, topic)].current_difficulty
                 ELSE requested_difficulty[1]
        level == Max(1, Min(5, asked))
        generated == IF refused \/ drawn = "ValueError" THEN ValueError
                     ELSE [question_type |-> topic, difficulty |-> level,
                           correct_answer |-> drawn]
    IN /\ IF refused THEN drawn = "ValueError" ELSE generated \in generate(topic, level)
       /\ knowledge_scores' = scores
       /\ IF generated = ValueError
          THEN UNCHANGED <<_question_cache, question_ids>>
          ELSE /\ _question_cache' = Put(_question_cache, question_ids + 1, generated)
               /\ question_ids' = question_ids + 1
       /\ last_call' = [op |-> "get_question", question_type |-> topic,
                        refused |-> refused,
                        raised |-> ~refused /\ generated = ValueError]
       /\ UNCHANGED <<question_attempts, sessions, requests, parsed,
                      evalVars, compareVars, quizVars>>

\* POST /answer with request = AnswerRequest(question_id, question_type, answer)
SubmitAnswer(request) ==
    LET cached == get(_question_cache, request.question_id) IN
    IF cached = None
    THEN /\ last_call' = [op |-> "submit_answer", status |-> 400,
                          detail |-> "Question not found",
                          question_id |-> request.question_id]
         /\ UNCHANGED <<dbVars, sessions, _question_cache, question_ids, requests, parsed,
                        evalVars, compareVars, quizVars>>
    ELSE LET correct == request.answer = cached.correct_answer
             table == WithScore(knowledge_scores, request.question_type)
             i == FirstScore(table, request.question_type)
         IN /\ knowledge_scores' = [table EXCEPT ![i] = UpdatedScore(@, correct)]
            /\ question_attempts' = question_attempts (+)
                    SetToBag({QuestionAttempt(request.question_type, correct)})
            /\ _question_cache' = Del(_question_cache, request.question_id)
            /\ last_call' = [op |-> "submit_answer", status |-> 200,
                             question_id |-> request.question_id,
                             question_type |-> request.question_type,
                             topic |-> cached.question_type,
                             correct |-> correct]
            /\ UNCHANGED <<sessions, question_ids, requests, parsed,
                           evalVars, compareVars, quizVars>>

\* the sum of the correct attempts in the place of the sum of the attempts
RECURSIVE SumTotalOfCorrect(_)
SumTotalOfCorrect(scores) ==
    IF Len(scores) = 0 THEN 0 ELSE scores[1].correct_attempts + SumTotalOfCorrect(Tail(scores))

\* sum(s.total_attempts for s in scores), sum(s.correct_attempts for s in scores)
RECURSIVE SumTotal(_)
SumTotal(scores) ==
    IF Len(scores) = 0 THEN 0 ELSE scores[1].total_attempts + SumTotal(Tail(scores))
RECURSIVE SumCorrect(_)
SumCorrect(scores) ==
    IF Len(scores) = 0 THEN 0 ELSE scores[1].correct_attempts + SumCorrect(Tail(scores))

\* the entry of get_all_stats for a topic: its first score, or the zero entry
TopicStats(scores, topic) ==
    IF FirstScore(scores, topic) # 0
    THEN LET found == scores[FirstScore(scores, topic)] IN
         [topic |-> topic, total_attempts |-> found.total_attempts,
          correct_attempts |-> found.correct_attempts,
          current_streak |-> found.current_streak, best_streak |-> found.best_streak,
          current_difficulty |-> found.current_difficulty]
    ELSE [topic |-> topic, total_attempts |-> 0, correct_attempts |-> 0,
          current_streak |-> 0, best_streak |-> 0, current_difficulty |-> 1]

\* ProgressionEngine.get_all_stats(db), without the rounded accuracies;
\* recent_attempts is the number of rows of the query with .limit(10)
get_all_stats(scores, attempts) ==
    [total_questions |-> SumTotal(scores),
     total_correct |-> SumCorrect(scores),
     topics |-> [k \in 1..Len(TOPICS) |-> TopicStats(scores, TOPICS[k])],
     recent_attempts |-> Min(10, BagCardinality(attempts))]

\* GET /stats
GetAllStats ==
    /\ last_call' = [op |-> "get_all_stats",
                     stats |-> get_all_stats(knowledge_scores, question_attempts)]
    /\ UNCHANGED <<dbVars, sessions, evalVars, compareVars, quizVars, apiVars>>

(***************************************************************************)
(* Questions asked and left unanswered, attempts recorded and topics       *)
(* recommended, on an empty database                                       *)
(***************************************************************************)
\* the attempts recorded, and the questions asked, at most
MaxRecommendAttempts == 6
MaxRecommendQuestions == 1

RequestedTypes == {<<>>} \cup {<<t>> : t \in QUESTION_TYPES} \cup {<<"preflop">>}
RequestedDifficulties == {<<>>, <<3>>}

\* the draws of generate in the runs of the endpoints: these answers, or the exception
Drawn == {"One Pair", "Hand 1", "Play", "Weak", "ValueError"}

NextRecommend ==
    \/ \E question_type \in RequestedTypes, difficulty \in {<<>>} :
        \E drawn \in Drawn :
            /\ question_ids < MaxRecommendQuestions
            /\ GetQuestion(question_type, difficulty, drawn)
    \/ \E question_type \in Topics, correct \in BOOLEAN :
            /\ BagCardinality(question_attempts) < MaxRecommendAttempts
            /\ RecordAttempt(question_type, correct)
    \/ GetRecommendedTopic

SpecRecommend == Init /\ [][NextRecommend]_vars

(***************************************************************************)
(* The endpoints called one after another on an empty database:            *)
(* MaxApiQuestions questions asked at most, answers submitted for their    *)
(* ids under any question_type, stats read and reset                       *)
(***************************************************************************)
MaxApiQuestions == 2

AnswersGiven == {"One Pair", "Fold"}
AnswerRequests ==
    [question_id : 1..(MaxApiQuestions + 1),
     question_type : QUESTION_TYPES \cup {"preflop"},
     answer : AnswersGiven]

NextApi ==
    \/ \E question_type \in RequestedTypes, difficulty \in RequestedDifficulties :
        \E drawn \in Drawn :
            /\ question_ids < MaxApiQuestions
            /\ GetQuestion(question_type, difficulty, drawn)
    \/ \E request \in AnswerRequests : SubmitAnswer(request)
    \/ ResetStats
    \/ GetAllStats

SpecApi == Init /\ [][NextApi]_vars

(***************************************************************************)
(* The endpoints served at the same time.  get_question and submit_answer  *)
(* are plain functions, run by the server in threads of one process: each  *)
(* request has its own database session and all share _question_cache.    *)
(* A request advances by one statement that reads or writes the database   *)
(* or the cache at a time.                                                 *)
(***************************************************************************)
\* submit_answer reaches record_attempt: the cache was read (l.103) and held the
\* question; or it answers 400
SubmitLookup(p, request) ==
    /\ requests[p] = NoRequest
    /\ sessions[p] = Idle
    /\ LET cached == get(_question_cache, request.question_id) IN
       IF cached = None
       THEN /\ last_call' = [op |-> "submit_answer", status |-> 400,
                             detail |-> "Question not found",
                             question_id |-> request.question_id]
            /\ UNCHANGED <<sessions, requests>>
       ELSE /\ requests' = [requests EXCEPT ![p] =
                    [pc |-> "record", question_id |-> request.question_id,
                     question_type |-> request.question_type,
                     topic |-> cached.question_type,
                     correct |-> request.answer = cached.correct_answer]]
            /\ sessions' = [sessions EXCEPT ![p] =
                    [pc |-> "query", question_type |-> request.question_type,
                     correct |-> request.answer = cached.correct_answer,
                     attempt_pending |-> TRUE]]
            /\ UNCHANGED last_call
    /\ UNCHANGED <<dbVars, _question_cache, question_ids, parsed,
                   evalVars, compareVars, quizVars>>

\* record_attempt has returned: del _question_cache[request.question_id] (l.126),
\* a KeyError when the id is no longer there, which the server answers with 500
SubmitDelete(p) ==
    /\ requests[p].pc = "record"
    /\ sessions[p] = Idle
    /\ IF requests[p].question_id \in DOMAIN _question_cache
       THEN /\ _question_cache' = Del(_question_cache, requests[p].question_id)
            /\ last_call' = [op |-> "submit_answer", status |-> 200,
                             question_id |-> requests[p].question_id,
                             question_type |-> requests[p].question_type,
                             topic |-> requests[p].topic,
                             correct |-> requests[p].correct]
       ELSE /\ _question_cache' = _question_cache
            /\ last_call' = [op |-> "submit_answer", status |-> 500,
                             error |-> KeyError,
                             question_id |-> requests[p].question_id]
    /\ requests' = [requests EXCEPT ![p] = NoRequest]
    /\ UNCHANGED <<dbVars, sessions, question_ids, parsed, evalVars, compareVars, quizVars>>

\* get_question without a difficulty: the topic is chosen (l.41-47), the recommended
\* one when the request names none
AskQuestion(p, requested_type) ==
    /\ requests[p] = NoRequest
    /\ sessions[p] = Idle
    /\ LET topic == IF requested_type = <<>> THEN get_recommended_topic(knowledge_scores)
                    ELSE requested_type[1]
       IN IF topic \notin QUESTION_TYPES
          THEN /\ last_call' = [op |-> "get_question", question_type |-> topic,
                                refused |-> TRUE, raised |-> FALSE]
               /\ UNCHANGED requests
          ELSE /\ requests' = [requests EXCEPT ![p] = [pc |-> "score_query", topic |-> topic]]
               /\ UNCHANGED last_call
    /\ UNCHANGED <<dbVars, sessions, _question_cache, question_ids, parsed,
                   evalVars, compareVars, quizVars>>

\* get_or_create_score called by get_question (l.50-52): the query, .first()
ScoreQuery(p) ==
    /\ requests[p].pc = "score_query"
    /\ LET i == FirstScore(knowledge_scores, requests[p].topic) IN
       requests' = [requests EXCEPT ![p] =
            IF i = 0 THEN [pc |-> "score_create", topic |-> @.topic]
            ELSE [pc |-> "generate", topic |-> @.topic,
                  difficulty |-> knowledge_scores[i].current_difficulty]]
    /\ UNCHANGED <<engineVars, _question_cache, question_ids, parsed,
                   evalVars, compareVars, quizVars>>

\* get_or_create_score found no score: db.add(score), db.commit()
ScoreCreate(p) ==
    /\ requests[p].pc = "score_create"
    /\ knowledge_scores' = Append(knowledge_scores, NewKnowledgeScore(requests[p].topic))
    /\ requests' = [requests EXCEPT ![p] =
            [pc |-> "score_refresh", topic |-> @.topic, row |-> Len(knowledge_scores) + 1]]
    /\ UNCHANGED <<question_attempts, last_call, sessions, _question_cache, question_ids,
                   parsed, evalVars, compareVars, quizVars>>

\* get_or_create_score: db.refresh(score) of the score just created
ScoreRefresh(p) ==
    /\ requests[p].pc = "score_refresh"
    /\ requests' = [requests EXCEPT ![p] =
            [pc |-> "generate", topic |-> @.topic,
             difficulty |-> knowledge_scores[@.row].current_difficulty]]
    /\ UNCHANGED <<engineVars, _question_cache, question_ids, parsed,
                   evalVars, compareVars, quizVars>>

\* the question is generated at the clamped difficulty and put in the cache (l.54-60)
GenerateQuestion(p, drawn) ==
    /\ requests[p].pc = "generate"
    /\ LET topic == requests[p].topic
           level == Max(1, Min(5, requests[p].difficulty))
           generated == IF drawn = "ValueError" THEN ValueError
                        ELSE [question_type |-> topic, difficulty |-> level,
                              correct_answer |-> drawn]
       IN /\ generated \in generate(topic, level)
          /\ IF generated = ValueError THEN UNCHANGED <<_question_cache, question_ids>>
             ELSE /\ _question_cache' = Put(_question_cache, question_ids + 1, generated)
                  /\ question_ids' = question_ids + 1
          /\ last_call' = [op |-> "get_question", question_type |-> topic,
                           refused |-> FALSE, raised |-> generated = ValueError]
    /\ requests' = [requests EXCEPT ![p] = NoRequest]
    /\ UNCHANGED <<dbVars, sessions, parsed, evalVars, compareVars, quizVars>>

\* the questions asked at most, counting those in progress
MaxConcurrentQuestions == 2

QuestionsEntered ==
    question_ids + Cardinality({p \in Sessions : requests[p].pc \notin {"idle", "record"}})

\* the requests made at the same time: questions of the recommended topic, of
\* hand_ranking or of an unknown type, answers under two of the topics
ConcurrentRequestedTypes == {<<>>, <<"hand_ranking">>, <<"preflop">>}
ConcurrentAnswerRequests ==
    {request \in AnswerRequests : request.question_type \in {"hand_ranking", "which_wins"}}

NextApiConcurrent ==
    \E p \in Sessions :
        \/ \E requested_type \in ConcurrentRequestedTypes :
                /\ QuestionsEntered < MaxConcurrentQuestions
                /\ AskQuestion(p, requested_type)
        \/ ScoreQuery(p)
        \/ ScoreCreate(p)
        \/ ScoreRefresh(p)
        \/ \E drawn \in Drawn : GenerateQuestion(p, drawn)
        \/ \E request \in ConcurrentAnswerRequests : SubmitLookup(p, request)
        \/ QueryScore(p)
        \/ CreateScore(p)
        \/ RefreshScore(p)
        \/ CommitAttempt(p)
        \/ ReturnScore(p)
        \/ SubmitDelete(p)

SpecApiConcurrent == Init /\ [][NextApiConcurrent]_vars

(***************************************************************************)
(* The hand categories, stated on the cards themselves                     *)
(***************************************************************************)
CardSet(cs) == {cs[i] : i \in 1..Len(cs)}
RankSet(cs) == {cs[i].rank : i \in 1..Len(cs)}
CountOf(cs, r) == Cardinality({i \in 1..Len(cs) : cs[i].rank = r})
RanksHeld(cs, n) == {r \in Rank : CountOf(cs, r) = n}
OneSuit(cs) == \A i, j \in 1..Len(cs) : cs[i].suit = cs[j].suit
IsWheel(cs) == RankSet(cs) = {14, 2, 3, 4, 5}
IsRun(cs) == IsWheel(cs) \/ \E hi \in Rank : hi - 4 >= 2 /\ RankSet(cs) = (hi - 4)..hi
RunHigh(cs) == IF IsWheel(cs) THEN 5 ELSE SetMax(RankSet(cs))
IsRoyal(cs) == OneSuit(cs) /\ RankSet(cs) = 10..14

\* the first rank, in the priority order, whose predicate holds of the cards
FirstMatchingRank(cs) ==
    IF OneSuit(cs) /\ IsRun(cs) THEN (IF IsRoyal(cs) THEN ROYAL_FLUSH ELSE STRAIGHT_FLUSH)
    ELSE IF RanksHeld(cs, 4) # {} THEN FOUR_OF_A_KIND
    ELSE IF RanksHeld(cs, 3) # {} /\ RanksHeld(cs, 2) # {} THEN FULL_HOUSE
    ELSE IF OneSuit(cs) THEN FLUSH
    ELSE IF IsRun(cs) THEN STRAIGHT
    ELSE IF RanksHeld(cs, 3) # {} THEN THREE_OF_A_KIND
    ELSE IF Cardinality(RanksHeld(cs, 2)) = 2 THEN TWO_PAIR
    ELSE IF Cardinality(RanksHeld(cs, 2)) = 1 THEN ONE_PAIR
    ELSE HIGH_CARD

\* s lists exactly the elements of S, highest first
IsDescendingListOf(s, S) ==
    /\ Len(s) = Cardinality(S)
    /\ {s[i] : i \in 1..Len(s)} = S
    /\ \A i \in 1..(Len(s) - 1) : s[i] > s[i + 1]

Only(S) == CHOOSE x \in S : TRUE

FiveEvaluated == evaluated # NotEvaluated /\ Len(cards) = 5
ManyEvaluated == evaluated # NotEvaluated /\ Len(cards) \in {6, 7}

(***************************************************************************)
(* C1: for every hand of 5 distinct cards evaluate returns one of the 10   *)
(* hand ranks, the first in the priority order (straight flush or royal    *)
(* flush, four of a kind, full house, flush, straight, three of a kind,    *)
(* two pair, one pair, high card) whose predicate holds of the cards; and  *)
(* it returns Royal Flush exactly for one suit with ranks 10, J, Q, K, A.  *)
(***************************************************************************)
C1_FirstMatchingRank ==
    FiveEvaluated =>
        /\ evaluated.rank \in HandRank
        /\ evaluated.rank = FirstMatchingRank(cards)
        /\ (evaluated.rank = ROYAL_FLUSH <=> IsRoyal(cards))

\* a full house, which also holds three of a kind and a pair, has been evaluated
C1_Witness ==
    /\ FiveEvaluated
    /\ RanksHeld(cards, 3) # {}
    /\ evaluated.rank = FULL_HOUSE

(***************************************************************************)
(* C2: for every input of 6 or 7 distinct cards evaluate returns a hand    *)
(* whose score is the maximum score over all 5-card subsets of the input   *)
(* and whose cards are a 5-card subset of the input attaining that score.  *)
(***************************************************************************)
FiveCardSubsets(cs) == {S \in SUBSET (1..Len(cs)) : Cardinality(S) = 5}

\* the cards of cs at the indexes S, in the order of cs
SubHand(cs, S) == SelectSeq([i \in 1..Len(cs) |-> IF i \in S THEN cs[i] ELSE None],
                            LAMBDA c : c # None)

BestOfSubsets ==
    /\ Len(evaluated.cards) = 5
    /\ Distinct(evaluated.cards)
    /\ CardSet(evaluated.cards) \subseteq CardSet(cards)
    /\ score(_evaluate_five(evaluated.cards)) = score(evaluated)
    /\ \A S \in FiveCardSubsets(cards) :
           ~TupleLess(score(evaluated), score(_evaluate_five(SubHand(cards, S))))

\* C2 as amended: 6 cards have 6 five-card subsets, 7 cards have 21
C2_BestOfSubsets ==
    ManyEvaluated =>
        /\ BestOfSubsets
        /\ Len(combinations(Len(cards))) = Cardinality(FiveCardSubsets(cards))
        /\ Cardinality(FiveCardSubsets(cards)) = (IF Len(cards) = 6 THEN 6 ELSE 21)

\* C2 as stated: 15 subsets for 6 cards, 21 for 7
C2_AsStated ==
    ManyEvaluated =>
        /\ BestOfSubsets
        /\ Len(combinations(Len(cards))) = (IF Len(cards) = 6 THEN 15 ELSE 21)

\* seven cards whose best hand is made by the last five cards handed over only
C2_Witness ==
    /\ ManyEvaluated
    /\ Len(cards) = 7
    /\ evaluated.cards = SubSeq(cards, 3, 7)
    /\ \A S \in FiveCardSubsets(cards) :
           S # 3..7 => TupleLess(score(_evaluate_five(SubHand(cards, S))), score(evaluated))

(***************************************************************************)
(* C3: the tie-break values of a 5-card hand: four of a kind (quad rank)   *)
(* with the other rank as kicker; full house (trips rank, pair rank);      *)
(* flush all five ranks descending; straight and straight flush (high card *)
(* of the run), the wheel A-2-3-4-5 giving (5); three of a kind (trips     *)
(* rank) with two kickers descending; two pair (higher pair, lower pair)   *)
(* with one kicker; one pair (pair rank) with three kickers descending;    *)
(* high card (highest rank) with the remaining four descending.            *)
(***************************************************************************)
TieBreakValues(cs, h) ==
    LET p == h.primary_values
        k == h.kickers
    IN CASE h.rank \in {STRAIGHT, STRAIGHT_FLUSH, ROYAL_FLUSH} ->
                p = <<RunHigh(cs)>> /\ k = <<>>
         [] h.rank = FOUR_OF_A_KIND ->
                p = <<Only(RanksHeld(cs, 4))>> /\ k = <<Only(RanksHeld(cs, 1))>>
         [] h.rank = FULL_HOUSE ->
                p = <<Only(RanksHeld(cs, 3)), Only(RanksHeld(cs, 2))>> /\ k = <<>>
         [] h.rank = FLUSH ->
                Len(p) = 5 /\ IsDescendingListOf(p, RankSet(cs)) /\ k = <<>>
         [] h.rank = THREE_OF_A_KIND ->
                p = <<Only(RanksHeld(cs, 3))>> /\ Len(k) = 2
                /\ IsDescendingListOf(k, RanksHeld(cs, 1))
         [] h.rank = TWO_PAIR ->
                Len(p) = 2 /\ IsDescendingListOf(p, RanksHeld(cs, 2))
                /\ k = <<Only(RanksHeld(cs, 1))>>
         [] h.rank = ONE_PAIR ->
                p = <<Only(RanksHeld(cs, 2))>> /\ Len(k) = 3
                /\ IsDescendingListOf(k, RanksHeld(cs, 1))
         [] h.rank = HIGH_CARD ->
                p = <<SetMax(RankSet(cs))>> /\ Len(k) = 4
                /\ IsDescendingListOf(k, RankSet(cs) \ {SetMax(RankSet(cs))})
         [] OTHER -> FALSE

C3_TieBreakValues == FiveEvaluated => TieBreakValues(cards, evaluated)

\* the wheel has been evaluated as a straight
C3_Witness ==
    /\ FiveEvaluated
    /\ IsWheel(cards)
    /\ evaluated.rank = STRAIGHT
    /\ evaluated.primary_values = <<5>>

(***************************************************************************)
(* C4: compare_hands is antisymmetric and transitive over hands of 5 to 7  *)
(* cards: compare_hands(a, b) = -compare_hands(b, a); compare_hands(a, b)  *)
(* >= 0 and compare_hands(b, c) >= 0 imply compare_hands(a, c) >= 0; and   *)
(* the result is 0 exactly when the two evaluated score tuples (rank,      *)
(* primary_values, kickers) are equal.                                     *)
(***************************************************************************)
ScoreTuple(cs) ==
    LET h == evaluate(cs) IN <<h.rank, h.primary_values, h.kickers>>

C4_CompareIsAnOrder ==
    compared # NotCompared =>
        /\ compared.ab \in {-1, 0, 1}
        /\ compared.ab = -compared.ba
        /\ (compared.ab >= 0 /\ compared.bc >= 0 => compared.ac >= 0)
        /\ (compared.ab = 0 <=> ScoreTuple(hand1) = ScoreTuple(hand2))

\* three hands of one hand rank, the first of more than 5 cards, each beating the next
\* on its tie-break values
C4_Witness ==
    /\ compared # NotCompared
    /\ compared.ab = 1 /\ compared.bc = 1 /\ compared.ac = 1 /\ compared.ba = -1
    /\ evaluate(hand1).rank = evaluate(hand2).rank
    /\ evaluate(hand2).rank = evaluate(hand3).rank
    /\ Len(hand1) > 5

(***************************************************************************)
(* The score records and the attempts recorded on them                     *)
(***************************************************************************)
ScoreRows == {knowledge_scores[i] : i \in 1..Len(knowledge_scores)}

\* the score record of a topic before and after a step; before its creation it is
\* the record get_or_create_score creates
ScoreBefore(topic) ==
    IF FirstScore(knowledge_scores, topic) = 0 THEN NewKnowledgeScore(topic)
    ELSE knowledge_scores[FirstScore(knowledge_scores, topic)]
ScoreAfter(topic) == knowledge_scores'[FirstScore(knowledge_scores', topic)]

\* the step records an attempt (record_attempt is the call that returns in it)
AttemptRecorded == last_call'.op = "record_attempt"

\* the last call recorded an attempt on score record r
LastRecordedOn(r) == last_call.op = "record_attempt" /\ last_call.question_type = r.topic

(***************************************************************************)
(* C5: after any sequence of recorded attempts, correct or incorrect, on a *)
(* score record, its current_difficulty is within 1..5.                    *)
(***************************************************************************)
C5_DifficultyInRange == \A r \in ScoreRows : r.current_difficulty \in 1..5

\* a ninth attempt is recorded on a record that is at difficulty 5
C5_Witness ==
    \E r \in ScoreRows :
        LastRecordedOn(r) /\ r.total_attempts >= 9 /\ r.current_difficulty = 5

(***************************************************************************)
(* C6: on each recorded attempt, with the counters already updated and     *)
(* accuracy = correct_attempts / total_attempts * 100: with                *)
(* total_attempts < 5 the difficulty is unchanged; otherwise with          *)
(* accuracy >= 80 or current_streak >= 5 it becomes min(difficulty + 1, 5);*)
(* otherwise with accuracy < 50 it becomes max(difficulty - 1, 1);         *)
(* otherwise it is unchanged.                                              *)
(***************************************************************************)
DifficultyRule(before, after) ==
    LET d == before.current_difficulty
        total == after.total_attempts
        right == after.correct_attempts
    IN after.current_difficulty =
         IF total < 5 THEN d
         ELSE IF right * 100 >= 80 * total \/ after.current_streak >= 5
              THEN (IF d + 1 < 5 THEN d + 1 ELSE 5)
         ELSE IF right * 100 < 50 * total
              THEN (IF d - 1 > 1 THEN d - 1 ELSE 1)
         ELSE d

CountersRule(before, after, correct) ==
    /\ after.total_attempts = before.total_attempts + 1
    /\ correct =>
          /\ after.correct_attempts = before.correct_attempts + 1
          /\ after.current_streak = before.current_streak + 1
          /\ after.best_streak = IF before.best_streak >= after.current_streak
                                 THEN before.best_streak ELSE after.current_streak
    /\ ~correct =>
          /\ after.current_streak = 0
          /\ after.correct_attempts = before.correct_attempts
          /\ after.best_streak = before.best_streak

C7_CountersRule ==
    [][AttemptRecorded =>
          CountersRule(ScoreBefore(last_call'.question_type),
                       ScoreAfter(last_call'.question_type), last_call'.correct)]_vars

\* an incorrect answer has ended a streak of 3 and left the best streak at 3
C7_Witness ==
    \E r \in ScoreRows :
        /\ LastRecordedOn(r) /\ ~last_call.correct
        /\ r.total_attempts = 4 /\ r.correct_attempts = 3
        /\ r.current_streak = 0 /\ r.best_streak = 3

(***************************************************************************)
(* C8: in every state of a score record reached by recorded attempts from  *)
(* a freshly created record: total_attempts >= 0, correct_attempts <=      *)
(* total_attempts, current_streak >= 0 and best_streak >= current_streak.  *)
(***************************************************************************)
C8_CounterInvariants ==
    \A r \in ScoreRows :
        /\ r.total_attempts >= 0
        /\ r.correct_attempts <= r.total_attempts
        /\ r.current_streak >= 0
        /\ r.best_streak >= r.current_streak

\* a correct answer has raised the best streak together with the current one
C8_Witness ==
    \E r \in ScoreRows :
        /\ LastRecordedOn(r) /\ last_call.correct
        /\ r.current_streak = 4 /\ r.best_streak = 4
        /\ r.correct_attempts < r.total_attempts

(***************************************************************************)
(* C9: from no history for a topic (the record created with difficulty 1   *)
(* and all counters zero) the difficulty stays 1 after each of the first   *)
(* four consecutive correct answers, and the fifth consecutive correct     *)
(* answer leaves current_streak = 5 and raises current_difficulty to 2.    *)
(* A record whose attempts were all correct has total_attempts =           *)
(* correct_attempts, and only such a record has.                           *)
(***************************************************************************)
C9_FifthCorrectRaises ==
    \A r \in ScoreRows :
        /\ (r.total_attempts = 0 => r.current_difficulty = 1 /\ r.correct_attempts = 0
                                    /\ r.current_streak = 0 /\ r.best_streak = 0)
        /\ (r.total_attempts = r.correct_attempts /\ r.total_attempts <= 4
                => r.current_difficulty = 1 /\ r.current_streak = r.total_attempts)
        /\ (r.total_attempts = 5 /\ r.correct_attempts = 5
                => r.current_streak = 5 /\ r.current_difficulty = 2)

\* the fifth correct answer in a row from no history has been recorded
C9_Witness ==
    \E r \in ScoreRows :
        /\ LastRecordedOn(r) /\ last_call.correct
        /\ r.total_attempts = 5 /\ r.correct_attempts = 5 /\ r.current_difficulty = 2

(***************************************************************************)
(* C10: when several answer submissions for the same (user, topic) are     *)
(* processed concurrently, the final score record equals the result of     *)
(* applying them one after another in some serial order: total_attempts    *)
(* grows by the number of submissions, and no counter increment, streak    *)
(* update or difficulty transition is lost.                                *)
(***************************************************************************)
\* the records that right correct and wrong incorrect attempts, applied one after
\* another in some order to a fresh record, end in
RECURSIVE SerialOutcomes(_, _, _)
SerialOutcomes(topic, right, wrong) ==
    IF right = 0 /\ wrong = 0 THEN {NewKnowledgeScore(topic)}
    ELSE (IF right > 0
          THEN {UpdatedScore(r, TRUE) : r \in SerialOutcomes(topic, right - 1, wrong)}
          ELSE {})
         \cup
         (IF wrong > 0
          THEN {UpdatedScore(r, FALSE) : r \in SerialOutcomes(topic, right, wrong - 1)}
          ELSE {})

\* no record_attempt call is in progress
Quiescent == \A p \in Sessions : sessions[p].pc = "idle"

C10_SerialOutcome ==
    Quiescent =>
        \A topic \in Topics :
            LET right == CopiesIn(QuestionAttempt(topic, TRUE), question_attempts)
                wrong == CopiesIn(QuestionAttempt(topic, FALSE), question_attempts)
            IN right + wrong > 0 =>
                  /\ FirstScore(knowledge_scores, topic) # 0
                  /\ ScoreBefore(topic).total_attempts = right + wrong
                  /\ ScoreBefore(topic) \in SerialOutcomes(topic, right, wrong)

(***************************************************************************)
(* C11: record_attempt is all-or-nothing with respect to committed state:  *)
(* if it is interrupted by a failure at any point, the committed state     *)
(* holds either none of its effects (no new attempt-log record, no new or  *)
(* changed score record) or all of them (the attempt record together with  *)
(* the updated counters, streaks and difficulty), also for the first       *)
(* attempt on a topic.  With calls served one at a time, each leaving none *)
(* or all of its effects, the attempts logged for a topic are as many as   *)
(* its score record counts, and a topic has a score record only if an      *)
(* attempt on it is logged.                                                *)
(***************************************************************************)
LoggedAttempts(topic) ==
    CopiesIn(QuestionAttempt(topic, TRUE), question_attempts)
        + CopiesIn(QuestionAttempt(topic, FALSE), question_attempts)

C11_AllOrNothing ==
    (Quiescent /\ last_call.op = "record_attempt_failed") =>
        \A topic \in Topics :
            /\ ScoreBefore(topic).total_attempts = LoggedAttempts(topic)
            /\ FirstScore(knowledge_scores, topic) # 0 => LoggedAttempts(topic) > 0

(***************************************************************************)
(* C12: for each of the 10 target ranks, every hand that                   *)
(* _generate_hand_of_rank returns without taking the fallback draw         *)
(* consists of 5 distinct cards and evaluates, by HandEvaluator.evaluate,  *)
(* to exactly the target rank.                                             *)
(***************************************************************************)
SynthesizedOnTarget(target_rank, result) ==
    (result # ValueError /\ ~result.fallback) =>
        /\ Len(result.cards) = 5
        /\ Elements(result.cards) \subseteq Card
        /\ Cardinality(Elements(result.cards)) = 5
        /\ evaluate(result.cards).rank = target_rank

C12_SynthesizedRank ==
    synthesized # NotSynthesized =>
        SynthesizedOnTarget(synthesized.target_rank, synthesized.result)

\* a flush is returned by a pass of the loop, with cards excluded
C12_Witness ==
    /\ synthesized # NotSynthesized
    /\ synthesized.target_rank = FLUSH
    /\ synthesized.exclude_cards # <<>>
    /\ synthesized.result # ValueError
    /\ ~synthesized.result.fallback
    /\ evaluate(synthesized.result.cards).rank = FLUSH

(***************************************************************************)
(* C13: in every generated which_wins question the two hands share no      *)
(* card: the second hand is synthesized only from cards not used in the    *)
(* first hand, for every pair of target ranks, the same rank for both      *)
(* hands included.                                                         *)
(***************************************************************************)
QuestionGenerated == question # NoQuestion /\ question # ValueError

C13_HandsShareNoCard ==
    QuestionGenerated => Elements(question.cards) \cap Elements(question.cards2) = {}

(***************************************************************************)
(* C14: for every generated which_wins question, correct_answer is         *)
(* 'Hand 1' exactly when compare_hands(cards, cards2) = 1, 'Hand 2'        *)
(* exactly when it is -1, and 'Tie' exactly when it is 0; for difficulty   *)
(* 1-2 the two target ranks differ by at least 2 ordinals, and for         *)
(* difficulty 3-5 both hands target the same rank.                         *)
(***************************************************************************)
C14_AnswerAndTargets ==
    QuestionGenerated =>
        LET result == compare_hands(question.cards, question.cards2) IN
        /\ question.correct_answer = "Hand 1" <=> result = 1
        /\ question.correct_answer = "Hand 2" <=> result = -1
        /\ question.correct_answer = "Tie" <=> result = 0
        /\ question.difficulty \in 1..2 =>
              \/ question.rank1 - question.rank2 >= 2
              \/ question.rank2 - question.rank1 >= 2
        /\ question.difficulty \in 3..5 => question.rank1 = question.rank2

\* a question of difficulty 4 on two different hands of one rank that tie
C14_Witness ==
    /\ QuestionGenerated
    /\ question.difficulty = 4
    /\ question.rank1 = ONE_PAIR
    /\ question.correct_answer = "Tie"
    /\ Elements(question.cards) # Elements(question.cards2)
    /\ question.fallback = <<FALSE, FALSE>>

(***************************************************************************)
(* C15: get_category is total and deterministic over all starting-hand     *)
(* notations: it returns Premium, Strong, Playable or Marginal when the    *)
(* notation is in that category's fixed set, and Weak when it is in none;  *)
(* the four sets are pairwise disjoint, so no notation belongs to two      *)
(* categories.                                                             *)
(***************************************************************************)
C15_CategoryBySet ==
    starting.op = "get_category" =>
        LET n == notation(starting.hand)
            category == starting.result
        IN /\ category \in HandCategory
           /\ n \in PREMIUM => category = HandCategory_PREMIUM
           /\ n \in STRONG => category = HandCategory_STRONG
           /\ n \in PLAYABLE => category = HandCategory_PLAYABLE
           /\ n \in MARGINAL => category = HandCategory_MARGINAL
           /\ n \notin PREMIUM \cup STRONG \cup PLAYABLE \cup MARGINAL
                => category = HandCategory_WEAK
           /\ PREMIUM \cap STRONG = {} /\ PREMIUM \cap PLAYABLE = {}
           /\ PREMIUM \cap MARGINAL = {} /\ STRONG \cap PLAYABLE = {}
           /\ STRONG \cap MARGINAL = {} /\ PLAYABLE \cap MARGINAL = {}

\* get_category has returned Marginal for a hand of the marginal set
C15_Witness ==
    /\ starting.op = "get_category"
    /\ notation(starting.hand) \in MARGINAL
    /\ starting.result = HandCategory_MARGINAL

(***************************************************************************)
(* C16: for every pair of distinct hole cards, from_cards yields the       *)
(* starting hand with the higher rank first and suited equal to "both      *)
(* cards have the same suit", and its notation is the classification key   *)
(* used by the fixed category sets, so get_category(from_cards(c1, c2)) is *)
(* the category of that hand for every rank including ten (two tens        *)
(* classify as Strong, ten-nine suited as Playable, ace-ten suited as      *)
(* Playable).                                                              *)
(***************************************************************************)
\* the key of a hand in the category sets: the rank characters of RANK_ORDER,
\* higher first, with s or o for two different ranks
ClassificationKey(high, low, suited) ==
    LET c1 == RANK_ORDER[15 - high]
        c2 == RANK_ORDER[15 - low]
    IN IF high = low THEN <<c1, c2>> ELSE <<c1, c2, IF suited THEN "s" ELSE "o">>

CategoryOfKey(key) ==
    IF key \in PREMIUM THEN HandCategory_PREMIUM
    ELSE IF key \in STRONG THEN HandCategory_STRONG
    ELSE IF key \in PLAYABLE THEN HandCategory_PLAYABLE
    ELSE IF key \in MARGINAL THEN HandCategory_MARGINAL
    ELSE HandCategory_WEAK

C16_FromCardsClassified ==
    starting.op = "from_cards" =>
        LET hand == starting.result
            r1 == starting.card1.rank
            r2 == starting.card2.rank
            high == IF r1 >= r2 THEN r1 ELSE r2
            low == IF r1 >= r2 THEN r2 ELSE r1
            same_suit == starting.card1.suit = starting.card2.suit
        IN /\ from_symbol(hand.card1) = high
           /\ from_symbol(hand.card2) = low
           /\ hand.suited <=> same_suit
           /\ notation(hand) = ClassificationKey(high, low, same_suit)
           /\ get_category(hand) = CategoryOfKey(ClassificationKey(high, low, same_suit))

(***************************************************************************)
(* C17: should_play(hand, position) is true exactly when the hand's        *)
(* category meets the position's minimum: early -> at least Strong,        *)
(* middle -> at least Playable, late and blinds -> at least Marginal, any  *)
(* other position -> at least Playable.                                    *)
(***************************************************************************)
MinimumCategory(position) ==
    CASE position = "early" -> HandCategory_STRONG
      [] position = "middle" -> HandCategory_PLAYABLE
      [] position = "late" -> HandCategory_MARGINAL
      [] position = "blinds" -> HandCategory_MARGINAL
      [] OTHER -> HandCategory_PLAYABLE

C17_ShouldPlayThreshold ==
    starting.op = "should_play" =>
        (starting.result <=> get_category(starting.hand) >= MinimumCategory(starting.position))

\* a playable hand is not to be played from early position
C17_Witness ==
    /\ starting.op = "should_play"
    /\ starting.position = "early"
    /\ notation(starting.hand) \in PLAYABLE
    /\ ~starting.result

(***************************************************************************)
(* C18: for every category, Weak included, every result of                 *)
(* generate_random(category) is a starting hand whose get_category equals  *)
(* the requested category, with the higher rank first, together with       *)
(* exactly two distinct concrete cards whose ranks are the hand's two      *)
(* ranks and which share a suit exactly when the hand is suited; with no   *)
(* category given the hand is never Weak.                                  *)
(***************************************************************************)
C18_GenerateRandom ==
    starting.op = "generate_random" =>
        LET hand == starting.hand
            cs == starting.cards
        IN /\ starting.category # <<>> => get_category(hand) = starting.category[1]
           /\ starting.category = <<>> => get_category(hand) # HandCategory_WEAK
           /\ from_symbol(hand.card1) \in Rank /\ from_symbol(hand.card2) \in Rank
           /\ from_symbol(hand.card1) >= from_symbol(hand.card2)
           /\ Len(cs) = 2 /\ cs[1] \in Card /\ cs[2] \in Card /\ cs[1] # cs[2]
           /\ cs[1].rank = from_symbol(hand.card1) /\ cs[2].rank = from_symbol(hand.card2)
           /\ (cs[1].suit = cs[2].suit) <=> hand.suited

\* a weak hand of two ranks offsuit has been generated, with its two cards
C18_Witness ==
    /\ starting.op = "generate_random"
    /\ starting.category = <<HandCategory_WEAK>>
    /\ ~starting.hand.suited
    /\ starting.cards[1].suit # starting.cards[2].suit
    /\ get_category(starting.hand) = HandCategory_WEAK

(***************************************************************************)
(* Topic recommendation                                                    *)
(***************************************************************************)
\* the attempts recorded on a topic, and the correct ones among them
AttemptsLogged(topic) ==
    CopiesIn(QuestionAttempt(topic, TRUE), question_attempts)
        + CopiesIn(QuestionAttempt(topic, FALSE), question_attempts)
CorrectLogged(topic) == CopiesIn(QuestionAttempt(topic, TRUE), question_attempts)

\* C19: whenever at least one topic has 3 or more attempts, get_recommended_topic
\* returns a topic that has 3 or more attempts and whose accuracy is minimal among
\* the topics with 3 or more attempts, whatever the accuracies from 0% to 100%.
C19_WeakestRecommended ==
    (/\ last_call.op = "get_recommended_topic"
     /\ \E topic \in Topics : AttemptsLogged(topic) >= 3)
    => /\ AttemptsLogged(last_call.topic) >= 3
       /\ \A topic \in Topics :
            AttemptsLogged(topic) >= 3
            => CorrectLogged(last_call.topic) * AttemptsLogged(topic)
                    <= CorrectLogged(topic) * AttemptsLogged(last_call.topic)

\* C20: when no topic has 3 or more attempts and at least one of the three topics
\* has no recorded attempt, get_recommended_topic returns the first topic without an
\* attempt in the order hand_ranking, which_wins, starting_hand; with no attempt at
\* all that is hand_ranking, whatever questions were asked and left unanswered.
C20_FirstNeverAttempted ==
    (/\ last_call.op = "get_recommended_topic"
     /\ \A topic \in Topics : AttemptsLogged(topic) < 3
     /\ \E topic \in Topics : AttemptsLogged(topic) = 0)
    => \E k \in 1..Len(TOPICS) :
            /\ last_call.topic = TOPICS[k]
            /\ AttemptsLogged(TOPICS[k]) = 0
            /\ \A l \in 1..(k - 1) : AttemptsLogged(TOPICS[l]) > 0

(***************************************************************************)
(* C25: Card.from_string(s) returns a card exactly for the strings         *)
(* <rank><suit> with rank one of 2..9, 10, J, Q, K, A (ten as "10", not    *)
(* "T") and suit one of h, d, c, s in lower case; every other string fails *)
(* with the invalid-notation error; and parsing str(card) gives the card   *)
(* back, for each of the 52 cards.  Every ValueError counts as the         *)
(* invalid-notation error here, whatever its message.                      *)
(***************************************************************************)
CardNotations == {CardStr(card) : card \in Card}

C25_FromStringExact ==
    parsed # NotParsed
    => IF parsed.s \in CardNotations
       THEN \E card \in Card : CardStr(card) = parsed.s /\ parsed.result = [card |-> card]
       ELSE parsed.result = InvalidCardNotation \/ parsed.result = ValueError

(***************************************************************************)
(* C26: question generation is total: for each of the three question types *)
(* and every difficulty 1..5, whatever the random choices, generate        *)
(* returns a question and raises no error; the straight-flush constructor  *)
(* returns 5 cards for every high card it can pick.                        *)
(***************************************************************************)
C26_GenerationTotal == question # ValueError

(***************************************************************************)
(* C27: for every generated hand_ranking question, whether its cards come  *)
(* from a validated construction or from the fallback draw, correct_answer *)
(* is the display name of the rank evaluate gives the question's 5 cards.  *)
(***************************************************************************)
QuestionReturned == QuestionGenerated /\ question.pc = "done"
HandRankingGenerated == QuestionReturned /\ question.question_type = "hand_ranking"

C27_AnswerIsEvaluatedRank ==
    HandRankingGenerated
    => question.correct_answer = display_name(evaluate(question.cards).rank)

(***************************************************************************)
(* C30: for every generated question of any type and difficulty,           *)
(* correct_answer is one of the choices and no choice occurs twice; a      *)
(* hand_ranking question has exactly 4 choices, and the loop that fills    *)
(* them up to 4 terminates.                                                *)
(***************************************************************************)
ChoicesWellFormed ==
    QuestionReturned
    => /\ question.correct_answer \in Elements(question.choices)
       /\ Distinct(question.choices)
       /\ question.question_type = "hand_ranking" => Len(question.choices) = 4

LoopRunning == Filling /\ Len(question.choices) < 4
LoopLeft == Filling /\ Len(question.choices) >= 4

C30_ChoicesAndTermination == []ChoicesWellFormed /\ (LoopRunning ~> LoopLeft)

\* a hand_ranking question returned with the choice the loop added
C30_Witness ==
    /\ HandRankingGenerated
    /\ Len(question.choices) = 4
    /\ Cardinality(Elements(question.choices)
            \ {display_name(r) : r \in Elements(nearby_ranks(question.target_rank))}) = 2

(***************************************************************************)
(* The endpoints                                                           *)
(***************************************************************************)
\* the stats a query returns now
StatsNow == get_all_stats(knowledge_scores, question_attempts)

\* some question asked has had an answer accepted
SomeAnswerAccepted == Cardinality(DOMAIN _question_cache) < question_ids

ZeroStats(stats) ==
    /\ stats.total_questions = 0
    /\ \A k \in 1..Len(TOPICS) :
        /\ stats.topics[k].topic = TOPICS[k]
        /\ stats.topics[k].total_attempts = 0
        /\ stats.topics[k].current_difficulty = 1
    /\ stats.recent_attempts = 0

(***************************************************************************)
(* C21: after reset_stats, following any sequence of answered questions,   *)
(* there is no score record and no attempt-log record; a stats query then  *)
(* returns total_questions = 0, zero total_attempts and difficulty 1 for   *)
(* each of the three topics and no recent attempt; reset returns true.     *)
(***************************************************************************)
C21_ResetClearsStats ==
    /\ [](last_call.op = "reset_stats"
            => /\ last_call.returned
               /\ knowledge_scores = <<>>
               /\ question_attempts = EmptyBag)
    /\ [][(last_call.op = "reset_stats" /\ last_call'.op = "get_all_stats")
            => ZeroStats(last_call'.stats)]_vars

\* stats read as zero after an answer was accepted: a reset came in between
C21_Witness ==
    /\ last_call.op = "get_all_stats"
    /\ ZeroStats(last_call.stats)
    /\ SomeAnswerAccepted

AnswerAccepted ==
    /\ last_call'.op = "submit_answer"
    /\ last_call'.status = 200
    /\ _question_cache' # _question_cache

TotalQuestions == StatsNow.total_questions
AttemptsOnRecord == BagCardinality(question_attempts)

C24_TotalCountsAccepted ==
    /\ TotalQuestions = 0 /\ AttemptsOnRecord = 0
    /\ [](last_call.op = "get_all_stats" => last_call.stats.total_questions = AttemptsOnRecord)
    /\ [][IF AnswerAccepted
          THEN TotalQuestions' = TotalQuestions + 1 /\ AttemptsOnRecord' = AttemptsOnRecord + 1
          ELSE IF last_call'.op = "reset_stats"
               THEN TotalQuestions' = 0 /\ AttemptsOnRecord' = 0
               ELSE TotalQuestions' = TotalQuestions /\ AttemptsOnRecord' = AttemptsOnRecord]_vars

\* two answers accepted, one of them incorrect, and the stats read
C24_Witness ==
    /\ last_call.op = "get_all_stats"
    /\ last_call.stats.total_questions = 2
    /\ last_call.stats.total_correct = 1
    /\ AttemptsOnRecord = 2

(***************************************************************************)
(* C28: an accepted answer is recorded against the topic of the cached     *)
(* question it answers, whatever question_type the submission carries; so  *)
(* score records exist only for hand_ranking, which_wins and               *)
(* starting_hand, and total_questions is the sum of total_attempts over    *)
(* the three topics listed in the stats.                                   *)
(***************************************************************************)
C28_RecordedOnQuestionTopic ==
    /\ (last_call.op = "submit_answer" /\ last_call.status = 200)
        => /\ FirstScore(knowledge_scores, last_call.topic) # 0
           /\ BagIn(QuestionAttempt(last_call.topic, last_call.correct), question_attempts)
    /\ \A i \in 1..Len(knowledge_scores) : knowledge_scores[i].topic \in QUESTION_TYPES
    /\ StatsNow.total_questions
            = StatsNow.topics[1].total_attempts + StatsNow.topics[2].total_attempts
                + StatsNow.topics[3].total_attempts

\* the records of the attempt log
AttemptsRecorded == BagCardinality(question_attempts)

(***************************************************************************)
(* C23: for every question id at most one submitted answer is accepted     *)
(* and recorded; any other submission for that id, later or at the same    *)
(* time, is rejected and records nothing.  So the attempt log never holds  *)
(* more records than questions were generated.                             *)
(***************************************************************************)
C23_OneAnswerPerQuestion == AttemptsRecorded <= question_ids

(***************************************************************************)
(* C29: at most one score record exists per topic (the one user's), in     *)
(* every reachable state, including the states reached by get_question     *)
(* and submit_answer requests that call get_or_create_score at the same    *)
(* time.                                                                   *)
(***************************************************************************)
C29_OneScorePerTopic ==
    \A i, j \in 1..Len(knowledge_scores) :
        i # j => knowledge_scores[i].topic # knowledge_scores[j].topic

====
